---- MODULE Spec2Model ----
(***************************************************************************)
(* Question-document parsers of Prashnakosh: parse_all_docs_v2.py (the     *)
(* universal line state machine, the structured chapter-bank extractor,    *)
(* the strategy selection and the deduplication of main) and               *)
(* parse_all_docs.py (the simple-paper and chapter-bank line parsers).     *)
(*                                                                         *)
(* Texts are TLA+ strings read character by character; the regular         *)
(* expressions of the source are written as syntax trees and run by a      *)
(* backtracking matcher with the priorities of Python's re module.         *)
(***************************************************************************)
EXTENDS Integers, Sequences, FiniteSets, TLC

(***************************************************************************)
(* Characters and strings.  Every scan over a text is a divide-and-conquer *)
(* recursion, so that the depth of evaluation grows with the logarithm of  *)
(* the length of the text.                                                 *)
(***************************************************************************)
At(s, i) == SubSeq(s, i, i)

Slice(s, a, b) == IF a > b THEN "" ELSE SubSeq(s, a, b)

CharSet(s) == {At(s, i) : i \in 1..Len(s)}

UpperS == "ABCDEFGHIJKLMNOPQRSTUVWXYZ"

LowerS == "abcdefghijklmnopqrstuvwxyz"

Digit == CharSet("0123456789")

Whitespace == {" ", "\t", "\n", "\r", "\f"}

\* the least i in a..b with P(i), or b + 1
RECURSIVE FirstIn(_, _, _)
FirstIn(P(_), a, b) ==
    IF a > b THEN b + 1
    ELSE IF a = b THEN (IF P(a) THEN a ELSE b + 1)
    ELSE LET mid == (a + b) \div 2
             l == FirstIn(P, a, mid)
         IN  IF l <= mid THEN l ELSE FirstIn(P, mid + 1, b)

\* the greatest i in a..b with P(i), or a - 1
RECURSIVE LastIn(_, _, _)
LastIn(P(_), a, b) ==
    IF a > b THEN a - 1
    ELSE IF a = b THEN (IF P(a) THEN a ELSE a - 1)
    ELSE LET mid == (a + b) \div 2
             r == LastIn(P, mid + 1, b)
         IN  IF r > mid THEN r ELSE LastIn(P, a, mid)

\* the texts F(a), ..., F(b) concatenated
RECURSIVE Flat(_, _, _)
Flat(F(_), a, b) ==
    IF a > b THEN ""
    ELSE IF a = b THEN F(a)
    ELSE LET mid == (a + b) \div 2 IN Flat(F, a, mid) \o Flat(F, mid + 1, b)

\* the sequences F(a), ..., F(b) concatenated
RECURSIVE FlatSeq(_, _, _)
FlatSeq(F(_), a, b) ==
    IF a > b THEN <<>>
    ELSE IF a = b THEN F(a)
    ELSE LET mid == (a + b) \div 2 IN FlatSeq(F, a, mid) \o FlatSeq(F, mid + 1, b)

UpperLetters == CharSet(UpperS)

LowerLetters == CharSet(LowerS)

LowerOf == [c \in UpperLetters |-> At(LowerS, CHOOSE i \in 1..Len(UpperS) : At(UpperS, i) = c)]

UpperOf == [c \in LowerLetters |-> At(UpperS, CHOOSE i \in 1..Len(LowerS) : At(LowerS, i) = c)]

LowerChar(c) == IF c \in UpperLetters THEN LowerOf[c] ELSE c

UpperChar(c) == IF c \in LowerLetters THEN UpperOf[c] ELSE c

\* str.lower()
lower(s) == Flat(LAMBDA i : LowerChar(At(s, i)), 1, Len(s))

\* str.upper()
upper(s) == Flat(LAMBDA i : UpperChar(At(s, i)), 1, Len(s))

IsWs(s, i) == At(s, i) \in Whitespace

\* str.strip()
strip(s) ==
    Slice(s, FirstIn(LAMBDA i : ~IsWs(s, i), 1, Len(s)),
             LastIn(LAMBDA i : ~IsWs(s, i), 1, Len(s)))

\* ' '.join(s.split()): the runs of whitespace inside the text become one
\* space each, those at its two ends disappear
JoinPiece(s, last, i) ==
    IF ~IsWs(s, i) THEN At(s, i)
    ELSE IF i > 1 /\ i < last /\ ~IsWs(s, i - 1) THEN " "
    ELSE ""

JoinUpTo(s, last) == Flat(LAMBDA i : JoinPiece(s, last, i), 1, Len(s))

JoinSplit(s) == JoinUpTo(s, LastIn(LAMBDA i : ~IsWs(s, i), 1, Len(s)))

\* s.split(c): the pieces between the occurrences of the character c
SplitAt(s, cuts) ==
    [k \in 1..(Len(cuts) + 1) |->
       Slice(s, IF k = 1 THEN 1 ELSE cuts[k - 1] + 1,
                IF k = Len(cuts) + 1 THEN Len(s) ELSE cuts[k] - 1)]

SplitOn(s, c) ==
    SplitAt(s, FlatSeq(LAMBDA i : IF At(s, i) = c THEN <<i>> ELSE <<>>, 1, Len(s)))

\* sep.join(parts)
join(sep, parts) ==
    Flat(LAMBDA i : IF i = 1 THEN parts[i] ELSE sep \o parts[i], 1, Len(parts))

\* sub in s
Contains(s, sub) ==
    \E i \in 1..(Len(s) - Len(sub) + 1) : Slice(s, i, i + Len(sub) - 1) = sub

DigitVal(c) == FirstIn(LAMBDA n : At("0123456789", n + 1) = c, 0, 9)

\* int(digits)
RECURSIVE ToInt(_)
ToInt(ds) ==
    IF ds = "" THEN 0
    ELSE 10 * ToInt(Slice(ds, 1, Len(ds) - 1)) + DigitVal(At(ds, Len(ds)))

(***************************************************************************)
(* Regular expressions: syntax trees, and the matches of Python's re in    *)
(* the order in which its backtracking search tries them.                  *)
(***************************************************************************)
\* Every node carries the characters a match of it can begin with (first: the
\* set cs, or every character outside cs when any) and whether it can match
\* the empty text (nullable); the search skips the positions they rule out.
NoChar == [any |-> FALSE, cs |-> {}]

FirstOf(anys, sets) ==
    IF anys = {} THEN [any |-> FALSE, cs |-> sets]
    ELSE [any |-> TRUE,
          cs |-> {c \in UNION {f.cs : f \in anys} : (\A f \in anys : c \in f.cs) /\ c \notin sets}]

FirstUnion(fs) == FirstOf({f \in fs : f.any}, UNION {f.cs : f \in {g \in fs : ~g.any}})

\* characters of the set cs (outside it when neg): exactly one when
\* min = 1 and ~many, "?" when min = 0 and ~many, "*" and "+" when many
Rep(cs, neg, min, many, lazy) ==
    [t |-> "rep", cs |-> cs, neg |-> neg, min |-> min, many |-> many, lazy |-> lazy,
     nullable |-> (min = 0), first |-> [any |-> neg, cs |-> cs]]

Chr(cs) == Rep(cs, FALSE, 1, FALSE, FALSE)

Maybe(cs) == Rep(cs, FALSE, 0, FALSE, FALSE)

Star(cs) == Rep(cs, FALSE, 0, TRUE, FALSE)

Plus(cs) == Rep(cs, FALSE, 1, TRUE, FALSE)

\* [^cs]+?
LazyPlusNot(cs) == Rep(cs, TRUE, 1, TRUE, TRUE)

\* ".+" : "." is any character but a newline; under DOTALL any character
PlusDot == Rep({"\n"}, TRUE, 1, TRUE, FALSE)

LazyPlusDot == Rep({"\n"}, TRUE, 1, TRUE, TRUE)

LazyPlusDotAll == Rep({}, TRUE, 1, TRUE, TRUE)

\* a literal text; under IGNORECASE (icase) it is kept in lower case
Lit(s) ==
    [t |-> "lit", s |-> s, icase |-> FALSE, nullable |-> (s = ""),
     first |-> [any |-> FALSE, cs |-> IF s = "" THEN {} ELSE {At(s, 1)}]]

ILit(s) ==
    [t |-> "lit", s |-> lower(s), icase |-> TRUE, nullable |-> (s = ""),
     first |-> [any |-> FALSE,
                cs |-> IF s = "" THEN {} ELSE {LowerChar(At(s, 1)), UpperChar(At(s, 1))}]]

\* k: the first part that cannot match the empty text
CatUpTo(rs, k) ==
    [t |-> "cat", rs |-> rs, nullable |-> (k > Len(rs)),
     first |-> FirstUnion({rs[i].first : i \in 1..(IF k > Len(rs) THEN Len(rs) ELSE k)})]

Cat(rs) == CatUpTo(rs, FirstIn(LAMBDA i : ~rs[i].nullable, 1, Len(rs)))

Alt(rs) ==
    [t |-> "alt", rs |-> rs, nullable |-> (\E i \in 1..Len(rs) : rs[i].nullable),
     first |-> FirstUnion({rs[i].first : i \in 1..Len(rs)})]

Eps == Cat(<<>>)

\* (?:r)?
Opt(r) == Alt(<<r, Eps>>)

\* (?=r)
Look(r) == [t |-> "look", r |-> r, nullable |-> TRUE, first |-> NoChar]

\* ^ and $ without MULTILINE
Bos == [t |-> "bos", nullable |-> TRUE, first |-> NoChar]

Eos == [t |-> "eos", nullable |-> TRUE, first |-> NoChar]

\* the capturing group number n
Grp(n, r) ==
    Cat(<<[t |-> "open", n |-> n, nullable |-> TRUE, first |-> NoChar], r,
          [t |-> "close", n |-> n, nullable |-> TRUE, first |-> NoChar]>>)

\* a character set under IGNORECASE
ICase(cs) == cs \cup {LowerChar(c) : c \in cs} \cup {UpperChar(c) : c \in cs}

Ws == Whitespace

Digits == Plus(Digit)

NoGroups == <<<<0, 0>>, <<0, 0>>>>

InCls(r, c) == IF r.neg THEN c \notin r.cs ELSE c \in r.cs

LitAt(r, s, p) ==
    /\ p + Len(r.s) - 1 <= Len(s)
    /\ IF r.icase
       THEN \A i \in 1..Len(r.s) : LowerChar(At(s, p + i - 1)) = At(r.s, i)
       ELSE Slice(s, p, p + Len(r.s) - 1) = r.s

\* can a match of r begin at position p of s
Starts(r, s, p) ==
    \/ r.nullable
    \/ /\ p <= Len(s)
       /\ IF r.first.any THEN At(s, p) \notin r.first.cs ELSE At(s, p) \in r.first.cs

\* the states after a repetition that can end anywhere from near to far
RepStates(m, lazy, near, far) ==
    IF far < near THEN <<>>
    ELSE [k \in 1..(far - near + 1) |-> [m EXCEPT !.p = IF lazy THEN near + k - 1 ELSE far - k + 1]]

\* stop: the first position from p whose character is outside the set
RepFar(r, p, stop) == IF r.many THEN stop ELSE IF stop > p THEN p + 1 ELSE p

\* Ends(r, s, ms): the match states (position p, group spans g) in which r can
\* end on the text s when started in the states ms, in the order of
\* preference of the backtracking search.
RECURSIVE Ends(_, _, _)
RECURSIVE CatRange(_, _, _, _, _)
RECURSIVE EndsOne(_, _, _)
EndsOne(r, s, m) ==
    IF ~Starts(r, s, m.p) THEN <<>> ELSE
    CASE r.t = "rep" ->
           RepStates(m, r.lazy, m.p + r.min,
                     RepFar(r, m.p, FirstIn(LAMBDA j : ~InCls(r, At(s, j)), m.p, Len(s))))
      [] r.t = "lit" ->
           IF LitAt(r, s, m.p) THEN <<[m EXCEPT !.p = m.p + Len(r.s)]>> ELSE <<>>
      [] r.t = "cat" -> CatRange(r.rs, 1, Len(r.rs), s, <<m>>)
      [] r.t = "alt" -> FlatSeq(LAMBDA i : Ends(r.rs[i], s, <<m>>), 1, Len(r.rs))
      [] r.t = "look" -> IF Ends(r.r, s, <<m>>) # <<>> THEN <<m>> ELSE <<>>
      [] r.t = "bos" -> IF m.p = 1 THEN <<m>> ELSE <<>>
      [] r.t = "eos" ->
           IF m.p = Len(s) + 1 \/ (m.p = Len(s) /\ At(s, m.p) = "\n")
           THEN <<m>> ELSE <<>>
      [] r.t = "open" -> <<[m EXCEPT !.g[r.n] = <<m.p, 0>>]>>
      [] r.t = "close" -> <<[m EXCEPT !.g[r.n][2] = m.p]>>

Ends(r, s, ms) ==
    IF ms = <<>> THEN <<>>
    ELSE IF Len(ms) = 1 THEN EndsOne(r, s, ms[1])
    ELSE FlatSeq(LAMBDA j : EndsOne(r, s, ms[j]), 1, Len(ms))

CatRange(rs, a, b, s, ms) ==
    IF a > b \/ ms = <<>> THEN ms
    ELSE IF a = b THEN Ends(rs[a], s, ms)
    ELSE CatRange(rs, (a + b) \div 2 + 1, b, s, CatRange(rs, a, (a + b) \div 2, s, ms))

\* A found match: st..en-1 is the matched span, g the group spans.
NoFind == [st |-> 0, en |-> 0, g |-> NoGroups]

Found(f) == f.st # 0

\* the preferred one of the ends es of the matches that start at position i
MatchOf(i, es) == IF es = <<>> THEN NoFind ELSE [st |-> i, en |-> es[1].p, g |-> es[1].g]

\* the match of r that starts at position i, if any
MatchAt(r, s, i) == MatchOf(i, Ends(r, s, <<[p |-> i, g |-> NoGroups]>>))

\* re.match(r, s)
re_match(r, s) == MatchAt(r, s, 1)

\* the first of two matches that is found
Prefer(f, g) == IF Found(f) THEN f ELSE g

\* F(k) for the least k in a..b where it is a found match
RECURSIVE FirstFound(_, _, _)
FirstFound(F(_), a, b) ==
    IF a > b THEN NoFind
    ELSE IF a = b THEN F(a)
    ELSE Prefer(FirstFound(F, a, (a + b) \div 2), FirstFound(F, (a + b) \div 2 + 1, b))

\* re.search(r, s), the scan starting at position i
SearchFrom(r, s, i) == FirstFound(LAMBDA k : MatchAt(r, s, k), i, Len(s) + 1)

re_search(r, s) == SearchFrom(r, s, 1)

\* match.group(n)
Group(s, f, n) == Slice(s, f.g[n][1], f.g[n][2] - 1)

\* re.finditer(r, s): the successive non-overlapping matches (no pattern of
\* the source matches the empty text)
RECURSIVE FindAllFrom(_, _, _)
RECURSIVE MatchesFrom(_, _, _)
FindAllFrom(r, s, i) == MatchesFrom(r, s, SearchFrom(r, s, i))

MatchesFrom(r, s, f) ==
    IF ~Found(f) \/ f.en = f.st THEN <<>>
    ELSE <<f>> \o FindAllFrom(r, s, f.en)

re_finditer(r, s) == FindAllFrom(r, s, 1)

\* the text before the match number k, followed by repl; after the last
\* match, the rest of the text
Piece(s, repl, fs, k) ==
    IF k = Len(fs) + 1 THEN Slice(s, IF k = 1 THEN 1 ELSE fs[k - 1].en, Len(s))
    ELSE Slice(s, IF k = 1 THEN 1 ELSE fs[k - 1].en, fs[k].st - 1) \o repl

Replaced(s, repl, fs) == Flat(LAMBDA k : Piece(s, repl, fs, k), 1, Len(fs) + 1)

\* re.sub(r, repl, s): every match replaced by repl
re_sub(r, repl, s) == Replaced(s, repl, re_finditer(r, s))

(***************************************************************************)
(* Optional values: None is the empty tuple, a present value v is <<v>>.   *)
(***************************************************************************)
None == <<>>

Some(v) == <<v>>

IsSome(o) == o # <<>>

Val(o) == o[1]

(***************************************************************************)
(* parse_all_docs_v2.py: clean_text, extract_marks, detect_question_type.  *)
(***************************************************************************)
\* r'Page:\s*\d+/\d+'
PageMarkerRe == Cat(<<Lit("Page:"), Star(Ws), Digits, Lit("/"), Digits>>)

\* r'Page\s+\d+\s+of\s+\d+'
PageOfRe == Cat(<<Lit("Page"), Plus(Ws), Digits, Plus(Ws), Lit("of"), Plus(Ws), Digits>>)

clean_text(text) ==
    strip(JoinSplit(re_sub(PageOfRe, " ", re_sub(PageMarkerRe, " ", text))))

\* (?:mark|marks|m) and (?:mark|marks) under IGNORECASE
MarkWordM == Alt(<<ILit("mark"), ILit("marks"), ILit("m")>>)

MarkWord == Alt(<<ILit("mark"), ILit("marks")>>)

\* the ordered patterns of extract_marks, all under IGNORECASE
MarksPatterns ==
    << Cat(<<Lit("["), Grp(1, Digits), Star(Ws), MarkWordM, Lit("]")>>),
       Cat(<<Lit("("), Grp(1, Digits), Star(Ws), MarkWordM, Lit(")")>>),
       Cat(<<Grp(1, Digits), Star(Ws), MarkWord, Star(Ws), Eos>>),
       Cat(<<Lit("["), Grp(1, Digits), Lit("]")>>),
       Cat(<<ILit("Marks"), Star(Ws), Grp(1, Digits)>>) >>

\* for pattern in patterns: the first pattern that is found gives the number
RECURSIVE FirstMarks(_, _)
RECURSIVE MarksFrom(_, _, _)
FirstMarks(patterns, text) ==
    IF patterns = <<>> THEN None
    ELSE MarksFrom(patterns, text, re_search(Head(patterns), text))

\* match: the search of the first of the patterns
MarksFrom(patterns, text, match) ==
    IF Found(match) THEN Some(ToInt(Group(text, match, 1)))
    ELSE FirstMarks(Tail(patterns), text)

\* a faulty variant of extract_marks: the bare bracketed number is tried first
BareBracketFirst(text) ==
    FirstMarks(<<MarksPatterns[4], MarksPatterns[1], MarksPatterns[2], MarksPatterns[3],
                 MarksPatterns[5]>>, text)

extract_marks(text) == FirstMarks(MarksPatterns, text)

\* a faulty variant of TypeByText: the marks are looked at before the keywords
MarksBeforeKeywords(text_lower, marks) ==
    IF IsSome(marks) /\ Val(marks) >= 4 THEN "long_answer"
    ELSE IF Contains(text_lower, "true or false") \/ Contains(text_lower, "true/false")
    THEN "true_false"
    ELSE IF Contains(text_lower, "assertion") /\ Contains(text_lower, "reason")
    THEN "assertion_reason"
    ELSE IF Contains(text_lower, "fill in") \/ Contains(text_lower, "fill up")
    THEN "fill_blank"
    ELSE IF Contains(text_lower, "match") /\ Contains(text_lower, "column")
    THEN "matching"
    ELSE "short_answer"

\* the type rules after the options rule, given the marks found in the text
TypeByText(text_lower, marks) ==
    IF Contains(text_lower, "true or false") \/ Contains(text_lower, "true/false")
    THEN "true_false"
    ELSE IF Contains(text_lower, "assertion") /\ Contains(text_lower, "reason")
    THEN "assertion_reason"
    ELSE IF Contains(text_lower, "fill in") \/ Contains(text_lower, "fill up")
    THEN "fill_blank"
    ELSE IF Contains(text_lower, "match") /\ Contains(text_lower, "column")
    THEN "matching"
    ELSE IF IsSome(marks) /\ Val(marks) # 0
    THEN (IF Val(marks) >= 4 THEN "long_answer"
          ELSE IF Val(marks) >= 2 THEN "short_answer"
          ELSE "short_answer")
    ELSE "short_answer"

\* a faulty variant of detect_question_type: the keywords are tried before the options
KeywordsBeforeOptions(text, options) ==
    IF TypeByText(lower(text), None) # "short_answer" THEN TypeByText(lower(text), None)
    ELSE IF options # <<>> /\ Len(options) >= 2 THEN "mcq"
    ELSE TypeByText(lower(text), extract_marks(text))

\* a faulty variant of detect_question_type: one option makes the type mcq
McqFromOneOption(text, options) ==
    IF options # <<>> THEN "mcq"
    ELSE TypeByText(lower(text), extract_marks(text))

detect_question_type(text, options) ==
    IF options # <<>> /\ Len(options) >= 2 THEN "mcq"
    ELSE TypeByText(lower(text), extract_marks(text))

(***************************************************************************)
(* parse_all_docs_v2.py: parse_document_universal.                         *)
(***************************************************************************)
\* The state of the loop: question_buffer, current_options, current_marks,
\* current_q_num and the list questions (current_question is never assigned).
UInit ==
    [question_buffer |-> <<>>, current_options |-> <<>>, current_marks |-> None,
     current_q_num |-> None, questions |-> <<>>]

\* full_text: every paragraph followed by a newline; the page markers become
\* newlines; the lines are cleaned and the empty ones dropped
RECURSIVE ConcatLines(_)
ConcatLines(paragraphs) ==
    IF paragraphs = <<>> THEN ""
    ELSE Head(paragraphs) \o "\n" \o ConcatLines(Tail(paragraphs))

NonEmpty(l) == l # ""

\* the lines of a text, cleaned
CleanLines(raw) == SelectSeq([i \in 1..Len(raw) |-> clean_text(raw[i])], NonEmpty)

UniversalLines(paragraphs) ==
    CleanLines(SplitOn(re_sub(PageOfRe, "\n",
                              re_sub(PageMarkerRe, "\n", ConcatLines(paragraphs))), "\n"))

\* q_patterns, under IGNORECASE
QPatterns ==
    << Cat(<<Bos, ILit("Q"), Maybe({"."}), Star(Ws), ILit("No"), Maybe({"."}), Star(Ws),
             Grp(1, Digits)>>),
       Cat(<<Bos, ILit("Q"), Maybe({"."}), Star(Ws), Grp(1, Digits),
             Chr({".", ")", ":"} \cup Whitespace)>>),
       Cat(<<Bos, Grp(1, Digits), Chr({".", ")"}), Plus(Ws)>>),
       Cat(<<Bos, Grp(1, Digits), Plus(Ws), Look(Chr(ICase(CharSet(UpperS))))>>) >>

\* option_pattern = r'^[(\[]?([a-dA-D])[)\].\s]+(.+)'
OptionRe ==
    Cat(<<Bos, Maybe({"(", "["}), Grp(1, Chr(CharSet("abcdABCD"))),
          Plus({")", "]", "."} \cup Whitespace), Grp(2, PlusDot)>>)

\* the header and instruction lines, under IGNORECASE
HeaderRe ==
    Cat(<<Bos, Alt(<<ILit("Section"), ILit("SECTION"), ILit("General Instructions"),
                     ILit("Time Allowed"), ILit("Maximum Marks"), ILit("CLASS"),
                     ILit("COMPUTER SCIENCE"), ILit("MARKING SCHEME"),
                     Cat(<<ILit("Q"), Star(Ws), ILit("No"), Plus(Ws), ILit("Section")>>)>>)>>)

\* r'^OR\s*$' under IGNORECASE
OrRe == Cat(<<Bos, ILit("OR"), Star(Ws), Eos>>)

\* r'\s*(Marks?|marks?)\s*\d*\s*$'
TrailingMarksWordRe ==
    Cat(<<Star(Ws), Alt(<<Cat(<<Lit("Mark"), Maybe({"s"})>>), Cat(<<Lit("mark"), Maybe({"s"})>>)>>),
          Star(Ws), Star(Digit), Star(Ws), Eos>>)

\* r'\[?\d+\]?\s*$'
TrailingNumberRe == Cat(<<Maybe({"["}), Digits, Maybe({"]"}), Star(Ws), Eos>>)

\* the minimum question length of save_current_question
MinQuestionLen == 15

\* a faulty variant of UKeep: every text that is not empty is kept
KeepNonEmpty(q_text) == Len(q_text) > 0

\* a faulty variant of UKeep: a text of exactly the minimum length is kept
KeepFromMinimum(q_text) == Len(q_text) >= MinQuestionLen

UKeep(q_text) == Len(q_text) > MinQuestionLen

\* a faulty variant of UQuestionText: the trailing number is left in the text
TextWithTrailingNumber(question_buffer) ==
    strip(re_sub(TrailingMarksWordRe, "", join(" ", question_buffer)))

\* the text save_current_question builds from the buffer
UQuestionText(question_buffer) ==
    strip(re_sub(TrailingNumberRe, "",
                 strip(re_sub(TrailingMarksWordRe, "", join(" ", question_buffer)))))

\* a faulty variant of MarksOrDefault: the default is 2 for every type
DefaultAlwaysTwo(current_marks, q_type) ==
    IF IsSome(current_marks) /\ Val(current_marks) # 0 THEN Val(current_marks) ELSE 2

\* a faulty variant of MarksOrDefault: only a missing mark takes the default
DefaultOnlyForNone(current_marks, q_type) ==
    IF IsSome(current_marks) THEN Val(current_marks)
    ELSE IF q_type = "mcq" THEN 1 ELSE 2

\* "if not current_marks": None and 0 both take the default
MarksOrDefault(current_marks, q_type) ==
    IF IsSome(current_marks) /\ Val(current_marks) # 0 THEN Val(current_marks)
    ELSE IF q_type = "mcq" THEN 1 ELSE 2

\* "current_options if current_options else None"
OptionsOrNone(current_options) ==
    IF current_options # <<>> THEN Some(current_options) ELSE None

URecordOf(q_text, q_type, current_options, current_marks, chapter_default, source_name) ==
    [questionText |-> q_text, type |-> q_type,
     marks |-> MarksOrDefault(current_marks, q_type),
     options |-> OptionsOrNone(current_options),
     correctAnswer |-> None, chapter |-> chapter_default, source |-> source_name]

URecord(q_text, current_options, current_marks, chapter_default, source_name) ==
    URecordOf(q_text, detect_question_type(q_text, current_options), current_options,
              current_marks, chapter_default, source_name)

\* the record at the head of the list
SaveAtHead(st, q_text, chapter_default, source_name) ==
    [st EXCEPT
       !.questions = IF st.question_buffer # <<>> /\ UKeep(q_text)
                     THEN <<URecord(q_text, st.current_options, st.current_marks,
                                    chapter_default, source_name)>> \o @
                     ELSE @,
       !.question_buffer = <<>>,
       !.current_options = <<>>,
       !.current_marks = None]

\* q_text: the text built from the buffer
USaveText(st, q_text, chapter_default, source_name) ==
    [st EXCEPT
       !.questions = IF st.question_buffer # <<>> /\ UKeep(q_text)
                     THEN Append(@, URecord(q_text, st.current_options, st.current_marks,
                                            chapter_default, source_name))
                     ELSE @,
       !.question_buffer = <<>>,
       !.current_options = <<>>,
       !.current_marks = None]

\* the candidate is reset only when its record is emitted
SaveKeepingDiscarded(st, chapter_default, source_name) ==
    IF st.question_buffer # <<>> /\ UKeep(UQuestionText(st.question_buffer))
    THEN USaveText(st, UQuestionText(st.question_buffer), chapter_default, source_name)
    ELSE st

save_current_question(st, chapter_default, source_name) ==
    USaveText(st, UQuestionText(st.question_buffer), chapter_default, source_name)

\* the first of q_patterns that matches the line: its index, or 0
RECURSIVE FirstQPattern(_, _)
FirstQPattern(line, i) ==
    IF i > Len(QPatterns) THEN 0
    ELSE IF Found(re_match(QPatterns[i], line)) THEN i
    ELSE FirstQPattern(line, i + 1)

UIsHeader(line) == Found(re_match(HeaderRe, line))

UIsBoundary(line) == FirstQPattern(line, 1) # 0

UIsOption(line) == Found(re_match(OptionRe, line))

IsOr(line) == Found(re_match(OrRe, line))

\* a line that starts a question: the open one is saved, the rest of the line
\* after the number starts the buffer, the marks are read from the whole line
\* saved: the state after save_current_question; rest: the line without the
\* matches of the pattern, stripped
UStart(saved, line, match, rest) ==
    [saved EXCEPT
       !.current_q_num = Some(Group(line, match, 1)),
       !.question_buffer = IF rest # "" THEN Append(@, rest) ELSE @,
       !.current_marks = extract_marks(line)]

UBoundaryWith(st, line, pattern, chapter_default, source_name) ==
    UStart(save_current_question(st, chapter_default, source_name), line,
           re_match(pattern, line), strip(re_sub(pattern, "", line)))

UBoundary(st, line, chapter_default, source_name) ==
    UBoundaryWith(st, line, QPatterns[FirstQPattern(line, 1)], chapter_default, source_name)

\* f"{opt_letter}) {opt_text}", the letter in upper case
OptionText(line, match) == upper(Group(line, match, 1)) \o ") " \o Group(line, match, 2)

\* a faulty variant of UOption: the option is also given to the last record
\* of the list
OptionIntoLastRecord(st, line) ==
    [st EXCEPT
       !.current_options = Append(@, OptionText(line, re_match(OptionRe, line))),
       !.questions =
           IF @ = <<>> THEN @
           ELSE [@ EXCEPT ![Len(@)].options =
                    Some(<<OptionText(line, re_match(OptionRe, line))>>)]]

UOption(st, line) ==
    [st EXCEPT !.current_options = Append(@, OptionText(line, re_match(OptionRe, line)))]

\* a faulty variant of UBody: the line is taken also when no question is open
BodyWithoutQuestion(st, line) == [st EXCEPT !.question_buffer = Append(@, line)]

UBody(st, line) ==
    IF st.question_buffer # <<>> \/ IsSome(st.current_q_num)
    THEN [st EXCEPT !.question_buffer = Append(@, line)]
    ELSE st

\* one iteration of "for line in lines"
UStep(st, line, chapter_default, source_name) ==
    IF UIsHeader(line) THEN st
    ELSE IF UIsBoundary(line) THEN UBoundary(st, line, chapter_default, source_name)
    ELSE IF UIsOption(line) /\ st.question_buffer # <<>> THEN UOption(st, line)
    ELSE IF IsOr(line) THEN st
    ELSE UBody(st, line)

RECURSIVE UFold(_, _, _, _)
UFold(st, lines, chapter_default, source_name) ==
    IF lines = <<>> THEN st
    ELSE UFold(UStep(st, Head(lines), chapter_default, source_name), Tail(lines),
               chapter_default, source_name)

parse_document_universal(paragraphs, source_name, chapter_default) ==
    save_current_question(UFold(UInit, UniversalLines(paragraphs), chapter_default, source_name),
                          chapter_default, source_name).questions

(***************************************************************************)
(* parse_all_docs_v2.py: parse_chapter_bank, the structured extractor.     *)
(***************************************************************************)
\* (?:Q\.?\s*)? under IGNORECASE
OptQPrefix == Opt(Cat(<<ILit("Q"), Maybe({"."}), Star(Ws)>>))

\* (?:Q\.?\s*)?\d+[.\)]
NumberMarker == Cat(<<OptQPrefix, Digits, Chr({".", ")"})>>)

\* q_pattern, under DOTALL and IGNORECASE
BlockRe ==
    Cat(<<OptQPrefix, Grp(1, Digits), Chr({".", ")"}), Star(Ws), Grp(2, LazyPlusDotAll),
          Look(Alt(<<NumberMarker, Eos>>))>>)

\* (?:Ans(?:wer)?|Correct\s*Answer) under IGNORECASE
AnswerWord ==
    Alt(<<Cat(<<ILit("Ans"), Opt(ILit("wer"))>>),
          Cat(<<ILit("Correct"), Star(Ws), ILit("Answer")>>)>>)

\* the answer inside a block
InlineAnswerRe ==
    Cat(<<AnswerWord, Plus({":"} \cup Whitespace), Grp(1, LazyPlusDot),
          Look(Alt(<<Cat(<<Star(Ws), NumberMarker>>), Eos>>))>>)

OptionLetters == CharSet("abcdABCD")

OptionClose == {")", "]", "."} \cup Whitespace

\* r'[(\[]?[a-dA-D][)\].\s]'
FirstOptionRe == Cat(<<Maybe({"(", "["}), Chr(OptionLetters), Chr(OptionClose)>>)

\* the options inside a block
InlineOptionRe ==
    Cat(<<Maybe({"(", "["}), Grp(1, Chr(OptionLetters)), Plus(OptionClose),
          Grp(2, LazyPlusNot({"(", "["} \cup OptionLetters)),
          Look(Alt(<<FirstOptionRe, Eos>>))>>)

\* r'\s*\[?\d+\s*(?:mark|marks|m)?\]?\s*$' under IGNORECASE
BlockTrailingMarksRe ==
    Cat(<<Star(Ws), Maybe({"["}), Digits, Star(Ws), Opt(MarkWordM), Maybe({"]"}), Star(Ws), Eos>>)

\* "extract_marks(text) or (1 if q_type == 'mcq' else 2)"
MarksOr(found, q_type) == MarksOrDefault(found, q_type)

\* The steps of one block captured by q_pattern, each given what the steps
\* before it computed; the result is the list of its records (none or one).
SEmit(q_content, q_type, marks, options, answer, chapter_name) ==
    IF Len(q_content) > MinQuestionLen
    THEN <<[questionText |-> q_content, type |-> q_type, marks |-> marks,
            options |-> OptionsOrNone(options), correctAnswer |-> answer,
            chapter |-> chapter_name, source |-> "Chapter Bank - " \o chapter_name]>>
    ELSE <<>>

STyped(q_content, q_type, options, answer, chapter_name) ==
    SEmit(strip(re_sub(BlockTrailingMarksRe, "", q_content)), q_type,
          MarksOr(extract_marks(q_content), q_type), options, answer, chapter_name)

\* first_opt: the first option marker of the block
SCut(q_content, options, first_opt) ==
    IF options # <<>> /\ Found(first_opt) THEN strip(Slice(q_content, 1, first_opt.st - 1))
    ELSE q_content

SQuestion(q_content, options, answer, chapter_name) ==
    STyped(q_content, detect_question_type(q_content, options), options, answer, chapter_name)

SOptionList(q_content, opts) ==
    [k \in 1..Len(opts) |->
       upper(Group(q_content, opts[k], 1)) \o ") " \o clean_text(Group(q_content, opts[k], 2))]

SWithOptions(q_content, options, answer, chapter_name) ==
    SQuestion(SCut(q_content, options, re_search(FirstOptionRe, q_content)), options, answer,
              chapter_name)

SOptions(q_content, answer, chapter_name) ==
    SWithOptions(q_content, SOptionList(q_content, re_finditer(InlineOptionRe, q_content)),
                 answer, chapter_name)

\* ans_match: the search of the answer in the block
SAnswer(q_content, ans_match, chapter_name) ==
    IF Found(ans_match)
    THEN SOptions(strip(Slice(q_content, 1, ans_match.st - 1)),
                  Some(clean_text(Group(q_content, ans_match, 1))), chapter_name)
    ELSE SOptions(q_content, None, chapter_name)

SClean(q_content, chapter_name) ==
    IF Len(q_content) < MinQuestionLen THEN <<>>
    ELSE SAnswer(q_content, re_search(InlineAnswerRe, q_content), chapter_name)

SBlock(content, chapter_name) == SClean(clean_text(content), chapter_name)

SBlocks(full_text, matches, chapter_name) ==
    FlatSeq(LAMBDA k : SBlock(Group(full_text, matches[k], 2), chapter_name), 1, Len(matches))

SText(full_text, chapter_name) ==
    SBlocks(full_text, re_finditer(BlockRe, full_text), chapter_name)

parse_chapter_bank(paragraphs, chapter_name) == SText(join("\n", paragraphs), chapter_name)

(***************************************************************************)
(* parse_all_docs.py: clean_text, extract_marks, detect_question_type.     *)
(***************************************************************************)
clean_text_v1(text) == strip(JoinSplit(re_sub(PageMarkerRe, "", text)))

\* the patterns of parse_all_docs.py: those of the newer file but the last
extract_marks_v1(text) == FirstMarks(SubSeq(MarksPatterns, 1, 4), text)

detect_question_type_v1(text, options) ==
    IF options # <<>> /\ Len(options) >= 2 THEN "mcq"
    ELSE TypeByText(lower(text), extract_marks_v1(text))

\* full_text.split('\n'), every line cleaned, the empty ones skipped
CleanLinesV1(raw) == SelectSeq([i \in 1..Len(raw) |-> clean_text_v1(raw[i])], NonEmpty)

LinesV1(text) == CleanLinesV1(SplitOn(text, "\n"))

(***************************************************************************)
(* parse_all_docs.py: parse_question_paper, the simple-paper strategy.     *)
(***************************************************************************)
PInit ==
    [current_question |-> None, current_options |-> <<>>, current_marks |-> None,
     in_options |-> FALSE, questions |-> <<>>]

\* the header and section lines, case-sensitive
PHeaderRe ==
    Cat(<<Bos, Alt(<<Lit("Section"), Lit("SECTION"), Lit("General Instructions"), Lit("Time"),
                     Lit("Maximum Marks"), Lit("CLASS"), Lit("COMPUTER SCIENCE")>>)>>)

\* r'^(\d+)[.\)]\s*(.+)'
PQuestionRe == Cat(<<Bos, Grp(1, Digits), Chr({".", ")"}), Star(Ws), Grp(2, PlusDot)>>)

\* the minimum length of parse_question_paper
MinPaperLen == 10

\* "if current_question": a text that is present and not empty
Truthy(o) == IsSome(o) /\ Val(o) # ""

PRecordOf(st, q_type, paper_name) ==
    [questionText |-> Val(st.current_question), type |-> q_type,
     marks |-> MarksOrDefault(st.current_marks, q_type),
     options |-> OptionsOrNone(st.current_options),
     correctAnswer |-> None, chapter |-> "Mixed", source |-> paper_name]

PRecord(st, paper_name) ==
    PRecordOf(st, detect_question_type_v1(Val(st.current_question), st.current_options),
              paper_name)

\* the open question is appended when it is longer than the minimum
PSave(st, paper_name) ==
    IF Truthy(st.current_question) /\ Len(Val(st.current_question)) > MinPaperLen
    THEN [st EXCEPT !.questions = Append(@, PRecord(st, paper_name))]
    ELSE st

PIsHeader(line) == Found(re_match(PHeaderRe, line))

PIsBoundary(line) == Found(re_match(PQuestionRe, line))

PBoundary(st, line, paper_name) ==
    [PSave(st, paper_name) EXCEPT
       !.current_question = Some(Group(line, re_match(PQuestionRe, line), 2)),
       !.current_options = <<>>,
       !.current_marks = extract_marks_v1(line),
       !.in_options = FALSE]

POption(st, line) ==
    [st EXCEPT !.current_options = Append(@, OptionText(line, re_match(OptionRe, line))),
               !.in_options = TRUE]

\* a faulty variant of PBody: the line is appended after the options as well
BodyAfterOptions(st, line) ==
    IF Truthy(st.current_question)
    THEN [st EXCEPT !.current_question = Some(Val(@) \o " " \o line)]
    ELSE st

PBody(st, line) ==
    IF Truthy(st.current_question) /\ ~st.in_options
    THEN [st EXCEPT !.current_question = Some(Val(@) \o " " \o line)]
    ELSE st

\* one iteration of the loop over the cleaned, non-empty lines
PStep(st, line, paper_name) ==
    IF PIsHeader(line) THEN st
    ELSE IF PIsBoundary(line) THEN PBoundary(st, line, paper_name)
    ELSE IF UIsOption(line) /\ Truthy(st.current_question) THEN POption(st, line)
    ELSE IF IsOr(line) THEN st
    ELSE PBody(st, line)

RECURSIVE PFold(_, _, _)
PFold(st, lines, paper_name) ==
    IF lines = <<>> THEN st
    ELSE PFold(PStep(st, Head(lines), paper_name), Tail(lines), paper_name)

\* the text the loop of parse_question_paper splits into lines
PaperText(paragraphs) == re_sub(PageMarkerRe, "\n", join("\n", paragraphs))

parse_question_paper(paragraphs, paper_name) ==
    PSave(PFold(PInit, LinesV1(PaperText(paragraphs)), paper_name), paper_name).questions

(***************************************************************************)
(* parse_all_docs.py: parse_chapter_question_bank, the line-based          *)
(* chapter-bank strategy.                                                  *)
(***************************************************************************)
BInit ==
    [current_question |-> None, current_options |-> <<>>, current_answer |-> None,
     questions |-> <<>>]

\* r'^(?:Q\.?\s*)?(\d+)[.\)]\s*(.+)', case-sensitive
BQuestionRe ==
    Cat(<<Bos, Opt(Cat(<<Lit("Q"), Maybe({"."}), Star(Ws)>>)), Grp(1, Digits), Chr({".", ")"}),
          Star(Ws), Grp(2, PlusDot)>>)

\* r'^(?:Ans(?:wer)?|Correct\s*Answer)[:\s]+(.+)' under IGNORECASE
BAnswerRe == Cat(<<Bos, AnswerWord, Plus({":"} \cup Whitespace), Grp(1, PlusDot)>>)

\* r'\[?\d+\s*(?:mark|marks|m)?\]?$' under IGNORECASE
BTrailingMarksRe ==
    Cat(<<Maybe({"["}), Digits, Star(Ws), Opt(MarkWordM), Maybe({"]"}), Eos>>)

BRecordOf(st, q_type, chapter_name) ==
    [questionText |-> strip(re_sub(BTrailingMarksRe, "", Val(st.current_question))),
     type |-> q_type,
     marks |-> MarksOr(extract_marks_v1(Val(st.current_question)), q_type),
     options |-> OptionsOrNone(st.current_options),
     correctAnswer |-> st.current_answer, chapter |-> chapter_name]

BRecord(st, chapter_name) ==
    BRecordOf(st, detect_question_type_v1(Val(st.current_question), st.current_options),
              chapter_name)

BSave(st, chapter_name) ==
    IF Truthy(st.current_question)
    THEN [st EXCEPT !.questions = Append(@, BRecord(st, chapter_name))]
    ELSE st

BIsBoundary(line) == Found(re_match(BQuestionRe, line))

BIsAnswer(line) == Found(re_match(BAnswerRe, line))

\* a faulty variant of BBoundary: the answer is not reset at the boundary
BoundaryKeepingAnswer(st, line, chapter_name) ==
    [BSave(st, chapter_name) EXCEPT
       !.current_question = Some(Group(line, re_match(BQuestionRe, line), 2)),
       !.current_options = <<>>]

BBoundary(st, line, chapter_name) ==
    [BSave(st, chapter_name) EXCEPT
       !.current_question = Some(Group(line, re_match(BQuestionRe, line), 2)),
       !.current_options = <<>>,
       !.current_answer = None]

\* f"{opt_letter}) {opt_text}", the letter as written
OptionTextV1(line, match) == Group(line, match, 1) \o ") " \o Group(line, match, 2)

BOption(st, line) ==
    [st EXCEPT !.current_options = Append(@, OptionTextV1(line, re_match(OptionRe, line)))]

BAnswer(st, line) ==
    [st EXCEPT !.current_answer = Some(strip(Group(line, re_match(BAnswerRe, line), 1)))]

BBody(st, line) ==
    IF Truthy(st.current_question)
    THEN [st EXCEPT !.current_question = Some(Val(@) \o " " \o line)]
    ELSE st

BStep(st, line, chapter_name) ==
    IF BIsBoundary(line) THEN BBoundary(st, line, chapter_name)
    ELSE IF UIsOption(line) /\ Truthy(st.current_question) THEN BOption(st, line)
    ELSE IF BIsAnswer(line) THEN BAnswer(st, line)
    ELSE BBody(st, line)

RECURSIVE BFold(_, _, _)
BFold(st, lines, chapter_name) ==
    IF lines = <<>> THEN st
    ELSE BFold(BStep(st, Head(lines), chapter_name), Tail(lines), chapter_name)

parse_chapter_question_bank(paragraphs, chapter_name) ==
    BSave(BFold(BInit, LinesV1(join("\n", paragraphs)), chapter_name), chapter_name).questions

(***************************************************************************)
(* State.  A run is either one document read by one strategy a line at a   *)
(* time, or main of parse_all_docs_v2.py over its chapter and paper files. *)
(***************************************************************************)
VARIABLES
    strategy,         \* the parser that runs: "universal", "paper", "bank", "structured"
    paragraphs,       \* the paragraph texts of the document
    lines,            \* the cleaned, non-empty lines the loop iterates over
    idx,              \* the position of the loop in lines
    pc,               \* where the run is
    question_buffer,  \* parse_document_universal
    current_q_num,    \* parse_document_universal
    current_question, \* parse_question_paper, parse_chapter_question_bank
    current_options,
    current_marks,    \* parse_document_universal, parse_question_paper
    in_options,       \* parse_question_paper
    current_answer,   \* parse_chapter_question_bank
    questions,        \* the records of the document; in main, of the last file
    chapter_files,    \* main: the chapter banks, in order
    paper_files,      \* main: the question papers, in order
    file_idx,         \* main: the position in the list being read
    all_questions,    \* main
    seen,             \* main: the fingerprints met by the deduplication
    unique_questions, \* main
    dedup_idx,        \* main: the position of the deduplication in all_questions
    errors,           \* main: the files whose error was printed, in order
    args,             \* a call of one function alone: its arguments
    result,           \* a call of one function alone: what it returned, once it has
    file,             \* parse-paper: the uploaded file
    openai_api_key,   \* parse-paper
    content_type,     \* parse-paper: the type the file is converted as
    images,           \* parse-paper, extract_questions_from_images: the pages
    response,         \* parse-paper: the answer of the endpoint, once it has one
    calls,            \* the calls made to a library or to a remote service, in order
    replies,          \* what the remote service answers to each call, in order
    loop_i,           \* i: the position of the loop over the pages or over the batches
    paper_metadata,   \* extract_questions_from_images
    token,            \* upload_questions.py: main
    total_uploaded,   \* upload_questions.py: main
    failed_batches    \* upload_questions.py: main

\* the state of the question-parser service and of the upload script
serviceVars ==
    <<file, openai_api_key, content_type, images, response, calls, replies, loop_i, paper_metadata,
      token, total_uploaded, failed_batches>>

Input == <<strategy, paragraphs, lines, args, result, serviceVars>>

loopVars ==
    <<question_buffer, current_q_num, current_question, current_options, current_marks,
      in_options, current_answer>>

lineVars == <<Input, idx, loopVars>>

mainVars ==
    <<chapter_files, paper_files, file_idx, all_questions, seen, unique_questions, dedup_idx,
      errors>>

vars == <<lineVars, pc, questions, mainVars>>

\* the longest document of the runs of the four strategies, in paragraphs
MaxParagraphs == 2

\* the paragraphs those documents are made of; a paragraph can hold line breaks
ParagraphPool ==
    { "1. Why use the for loop? [0]\n(a) for loop\n(b) while loop",
      "2. State true or false: x is y\n(c) neither",
      "Section A: General Instructions",
      "3. Define the loop [5]",
      "Q4) Fill in the gaps 3 marks",
      "OR\nAns: the for loop",
      "(d) none",
      "5. Name the loop type\nAnswer: the while loop",
      "6. Explain the loops (4 marks)",
      "7. Say [3]\nso\n(a) it" }

DocsOver(pool, n) == UNION {[1..k -> pool] : k \in 1..n}

\* the labels the caller passes for the document
SourceName == "Paper"

ChapterName == "Mixed"

Strategies == {"universal", "paper", "bank", "structured"}

LinesOf(strat, paras) ==
    CASE strat = "universal" -> UniversalLines(paras)
      [] strat = "paper" -> LinesV1(PaperText(paras))
      [] strat = "bank" -> LinesV1(join("\n", paras))
      [] strat = "structured" -> <<>>

LoopInit ==
    /\ idx = 1
    /\ question_buffer = <<>>
    /\ current_q_num = None
    /\ current_question = None
    /\ current_options = <<>>
    /\ current_marks = None
    /\ in_options = FALSE
    /\ current_answer = None

MainIdle ==
    /\ chapter_files = <<>>
    /\ paper_files = <<>>
    /\ file_idx = 1
    /\ all_questions = <<>>
    /\ seen = {}
    /\ unique_questions = <<>>
    /\ dedup_idx = 1
    /\ errors = <<>>

\* no function is called alone
\* neither the service nor the upload script runs
ServiceIdle ==
    /\ file = <<>>
    /\ openai_api_key = ""
    /\ content_type = <<>>
    /\ images = <<>>
    /\ response = <<>>
    /\ calls = <<>>
    /\ replies = <<>>
    /\ loop_i = 0
    /\ paper_metadata = <<>>
    /\ token = <<>>
    /\ total_uploaded = 0
    /\ failed_batches = <<>>

CallIdle ==
    /\ args = <<>>
    /\ result = None
    /\ ServiceIdle

InitWith(strats, docs) ==
    /\ strategy \in strats
    /\ paragraphs \in docs
    /\ lines = LinesOf(strategy, paragraphs)
    /\ pc = "loop"
    /\ questions = <<>>
    /\ LoopInit
    /\ MainIdle
    /\ CallIdle

Init == InitWith(Strategies, DocsOver(ParagraphPool, MaxParagraphs))

AtLine(strat) == strategy = strat /\ pc = "loop" /\ idx <= Len(lines)

AtEnd(strat) == strategy = strat /\ pc = "loop" /\ idx > Len(lines)

\* the line is read and nothing else changes
SkipLine ==
    /\ idx' = idx + 1
    /\ UNCHANGED <<Input, pc, loopVars, questions, mainVars>>

(***************************************************************************)
(* The loop of parse_document_universal, one action for each branch.       *)
(***************************************************************************)
UState ==
    [question_buffer |-> question_buffer, current_options |-> current_options,
     current_marks |-> current_marks, current_q_num |-> current_q_num, questions |-> questions]

USet(st) ==
    /\ question_buffer' = st.question_buffer
    /\ current_options' = st.current_options
    /\ current_marks' = st.current_marks
    /\ current_q_num' = st.current_q_num
    /\ questions' = st.questions
    /\ UNCHANGED <<current_question, in_options, current_answer, Input, mainVars>>

\* a faulty variant of UHeaderLine: the header line is taken as a body line
HeaderTakenAsBody ==
    /\ AtLine("universal")
    /\ UIsHeader(lines[idx])
    /\ USet(UBody(UState, lines[idx]))
    /\ idx' = idx + 1
    /\ UNCHANGED pc

UHeaderLine ==
    /\ AtLine("universal")
    /\ UIsHeader(lines[idx])
    /\ SkipLine

UBoundaryLine ==
    /\ AtLine("universal")
    /\ ~UIsHeader(lines[idx])
    /\ UIsBoundary(lines[idx])
    /\ USet(UBoundary(UState, lines[idx], ChapterName, SourceName))
    /\ idx' = idx + 1
    /\ UNCHANGED pc

UOptionLine ==
    /\ AtLine("universal")
    /\ ~UIsHeader(lines[idx])
    /\ ~UIsBoundary(lines[idx])
    /\ UIsOption(lines[idx])
    /\ question_buffer # <<>>
    /\ USet(UOption(UState, lines[idx]))
    /\ idx' = idx + 1
    /\ UNCHANGED pc

\* a faulty variant of UOrLine: the OR line is taken as a body line
OrTakenAsBody ==
    /\ AtLine("universal")
    /\ ~UIsHeader(lines[idx])
    /\ ~UIsBoundary(lines[idx])
    /\ ~(UIsOption(lines[idx]) /\ question_buffer # <<>>)
    /\ IsOr(lines[idx])
    /\ USet(UBody(UState, lines[idx]))
    /\ idx' = idx + 1
    /\ UNCHANGED pc

UOrLine ==
    /\ AtLine("universal")
    /\ ~UIsHeader(lines[idx])
    /\ ~UIsBoundary(lines[idx])
    /\ ~(UIsOption(lines[idx]) /\ question_buffer # <<>>)
    /\ IsOr(lines[idx])
    /\ SkipLine

UBodyLine ==
    /\ AtLine("universal")
    /\ ~UIsHeader(lines[idx])
    /\ ~UIsBoundary(lines[idx])
    /\ ~(UIsOption(lines[idx]) /\ question_buffer # <<>>)
    /\ ~IsOr(lines[idx])
    /\ USet(UBody(UState, lines[idx]))
    /\ idx' = idx + 1
    /\ UNCHANGED pc

\* a faulty variant of UEnd: the loop ends and the open question is not saved
EndWithoutSave ==
    /\ AtEnd("universal")
    /\ pc' = "done"
    /\ UNCHANGED <<lineVars, questions, mainVars>>

\* "Don't forget last question"
UEnd ==
    /\ AtEnd("universal")
    /\ USet(save_current_question(UState, ChapterName, SourceName))
    /\ pc' = "done"
    /\ UNCHANGED idx

UNext == UHeaderLine \/ UBoundaryLine \/ UOptionLine \/ UOrLine \/ UBodyLine \/ UEnd

(***************************************************************************)
(* The loop of parse_question_paper.                                       *)
(***************************************************************************)
PState ==
    [current_question |-> current_question, current_options |-> current_options,
     current_marks |-> current_marks, in_options |-> in_options, questions |-> questions]

PSet(st) ==
    /\ current_question' = st.current_question
    /\ current_options' = st.current_options
    /\ current_marks' = st.current_marks
    /\ in_options' = st.in_options
    /\ questions' = st.questions
    /\ UNCHANGED <<question_buffer, current_q_num, current_answer, Input, mainVars>>

PHeaderLine ==
    /\ AtLine("paper")
    /\ PIsHeader(lines[idx])
    /\ SkipLine

PBoundaryLine ==
    /\ AtLine("paper")
    /\ ~PIsHeader(lines[idx])
    /\ PIsBoundary(lines[idx])
    /\ PSet(PBoundary(PState, lines[idx], SourceName))
    /\ idx' = idx + 1
    /\ UNCHANGED pc

POptionLine ==
    /\ AtLine("paper")
    /\ ~PIsHeader(lines[idx])
    /\ ~PIsBoundary(lines[idx])
    /\ UIsOption(lines[idx])
    /\ Truthy(current_question)
    /\ PSet(POption(PState, lines[idx]))
    /\ idx' = idx + 1
    /\ UNCHANGED pc

POrLine ==
    /\ AtLine("paper")
    /\ ~PIsHeader(lines[idx])
    /\ ~PIsBoundary(lines[idx])
    /\ ~(UIsOption(lines[idx]) /\ Truthy(current_question))
    /\ IsOr(lines[idx])
    /\ SkipLine

PBodyLine ==
    /\ AtLine("paper")
    /\ ~PIsHeader(lines[idx])
    /\ ~PIsBoundary(lines[idx])
    /\ ~(UIsOption(lines[idx]) /\ Truthy(current_question))
    /\ ~IsOr(lines[idx])
    /\ PSet(PBody(PState, lines[idx]))
    /\ idx' = idx + 1
    /\ UNCHANGED pc

\* "Last question"
PEnd ==
    /\ AtEnd("paper")
    /\ PSet(PSave(PState, SourceName))
    /\ pc' = "done"
    /\ UNCHANGED idx

PNext == PHeaderLine \/ PBoundaryLine \/ POptionLine \/ POrLine \/ PBodyLine \/ PEnd

(***************************************************************************)
(* The loop of parse_chapter_question_bank.                                *)
(***************************************************************************)
BState ==
    [current_question |-> current_question, current_options |-> current_options,
     current_answer |-> current_answer, questions |-> questions]

BSet(st) ==
    /\ current_question' = st.current_question
    /\ current_options' = st.current_options
    /\ current_answer' = st.current_answer
    /\ questions' = st.questions
    /\ UNCHANGED <<question_buffer, current_q_num, current_marks, in_options, Input, mainVars>>

BBoundaryLine ==
    /\ AtLine("bank")
    /\ BIsBoundary(lines[idx])
    /\ BSet(BBoundary(BState, lines[idx], ChapterName))
    /\ idx' = idx + 1
    /\ UNCHANGED pc

BOptionLine ==
    /\ AtLine("bank")
    /\ ~BIsBoundary(lines[idx])
    /\ UIsOption(lines[idx])
    /\ Truthy(current_question)
    /\ BSet(BOption(BState, lines[idx]))
    /\ idx' = idx + 1
    /\ UNCHANGED pc

BAnswerLine ==
    /\ AtLine("bank")
    /\ ~BIsBoundary(lines[idx])
    /\ ~(UIsOption(lines[idx]) /\ Truthy(current_question))
    /\ BIsAnswer(lines[idx])
    /\ BSet(BAnswer(BState, lines[idx]))
    /\ idx' = idx + 1
    /\ UNCHANGED pc

BBodyLine ==
    /\ AtLine("bank")
    /\ ~BIsBoundary(lines[idx])
    /\ ~(UIsOption(lines[idx]) /\ Truthy(current_question))
    /\ ~BIsAnswer(lines[idx])
    /\ BSet(BBody(BState, lines[idx]))
    /\ idx' = idx + 1
    /\ UNCHANGED pc

\* "Don't forget last question"
BEnd ==
    /\ AtEnd("bank")
    /\ BSet(BSave(BState, ChapterName))
    /\ pc' = "done"
    /\ UNCHANGED idx

BNext == BBoundaryLine \/ BOptionLine \/ BAnswerLine \/ BBodyLine \/ BEnd

(***************************************************************************)
(* parse_chapter_bank reads the whole text in one pass.                    *)
(***************************************************************************)
SParse ==
    /\ strategy = "structured"
    /\ pc = "loop"
    /\ questions' = parse_chapter_bank(paragraphs, ChapterName)
    /\ pc' = "done"
    /\ UNCHANGED <<lineVars, mainVars>>

Next == UNext \/ PNext \/ BNext \/ SParse

Spec == Init /\ [][Next]_vars

(***************************************************************************)
(* The universal parser alone, on documents made of blocks of lines: a     *)
(* numbered question with its option lines, a three-character numbered     *)
(* line, a header and an OR line.                                          *)
(***************************************************************************)
\* the longest of these documents, in blocks
MaxBlocks == 3

\* A numbered question: its number, its text, its bare bracketed mark (or
\* none) and its lettered options.
Item(num, text, mark, opts) == [num |-> num, text |-> text, mark |-> mark, opts |-> opts]

ItemPool ==
    { Item("1", "What is inheritance?", Some("2"),
           << <<"a", "concept one">>, <<"b", "concept two">> >>),
      Item("2", "Explain polymorphism with an example.", None, <<>>),
      Item("3", "State true or false: x is y", Some("0"), << <<"c", "neither">> >>),
      Item("4", "What is OOP?", Some("3"), << <<"a", "one style">> >>) }

\* the lines of a numbered question
ItemLines(item) ==
    <<item.num \o ". " \o item.text \o
        (IF IsSome(item.mark) THEN " [" \o Val(item.mark) \o "]" ELSE "")>> \o
    [k \in 1..Len(item.opts) |-> "(" \o item.opts[k][1] \o ") " \o item.opts[k][2]]

\* the three-character numbered lines
ShortLines == {"Q1.", "1 A", "12."}

BlockPool ==
    {ItemLines(item) : item \in ItemPool} \cup {<<l>> : l \in ShortLines} \cup
    {<<"Section A: General Instructions", "OR">>}

RECURSIVE ConcatBlocks(_)
ConcatBlocks(blocks) ==
    IF blocks = <<>> THEN <<>> ELSE Head(blocks) \o ConcatBlocks(Tail(blocks))

BlockDocs == {ConcatBlocks(blocks) : blocks \in DocsOver(BlockPool, MaxBlocks)}

InitUniversal == InitWith({"universal"}, BlockDocs)

SpecUniversal == InitUniversal /\ [][UNext]_vars


(***************************************************************************)
(* parse_all_docs_v2.py: main.  The chapter banks, then the question       *)
(* papers, then the removal of duplicates, one action for each pass of a   *)
(* loop.  A file is the paragraphs python-docx reads from it, or a file    *)
(* that Document() cannot open.                                            *)
(***************************************************************************)
\* the most chapter banks and the most question papers of a run
MaxChapterFiles == 1

MaxPaperFiles == 2

File(opens, name, paras) == [opens |-> opens, name |-> name, paragraphs |-> paras]

\* a question text of 99 characters
LongText ==
    "Why does the interpreter read the whole of the file when the loop asks for one line of it each time"

InlineAnswerDoc == <<"1. What is a lambda function? Ans: A function defined with no name.">>

\* a question whose inline answer is a number at the end of the line
SumAnswerDoc == <<"2. What is the sum of 2 + 2? Ans: 4">>

FiveQuestionsDoc ==
    <<"1. Why use the for loop? Ans: to repeat", "2. Why use the while loop [3]",
      "3. Why use the if test in the loop?", "4. Why use the else part of the loop?",
      "5. Why use the loop with the else?">>

ChapterPool ==
    { File(TRUE, "Functions", FiveQuestionsDoc),
      File(TRUE, "Functions", InlineAnswerDoc),
      File(TRUE, "File Handling", <<"Intro: 1. Why use the for loop?">>),
      File(TRUE, "File Handling", SumAnswerDoc),
      File(FALSE, "Exception Handling", <<>>) }

PaperPool ==
    { File(TRUE, "SQP 2024-25", <<"1. " \o LongText, "2. " \o LongText \o "s and why not less">>),
      File(TRUE, "QP XII-1", <<"1. " \o LongText \o " and why not less", "2. " \o upper(LongText)>>),
      File(FALSE, "KV Region Preboard 2025-26", <<>>) }

\* the papers of the runs that look at the chapter banks: one paper with two
\* questions of one fingerprint and one that cannot be read
MainPaperPool == {f \in PaperPool : f.name # "SQP 2024-25"}

\* the chapter banks of the runs that look at the deduplication
DedupChapterPool == {f \in ChapterPool : f.name # "File Handling"}

\* main starts on the files of the two folders
InitFiles(chapter_pool, paper_pool) ==
    /\ strategy = "main"
    /\ paragraphs = <<>>
    /\ lines = <<>>
    /\ LoopInit
    /\ CallIdle
    /\ pc = "chapters"
    /\ questions = <<>>
    /\ chapter_files \in DocsOver(chapter_pool, MaxChapterFiles)
    /\ paper_files \in DocsOver(paper_pool, MaxPaperFiles)
    /\ file_idx = 1
    /\ all_questions = <<>>
    /\ seen = {}
    /\ unique_questions = <<>>
    /\ dedup_idx = 1
    /\ errors = <<>>

AtChapter == pc = "chapters" /\ file_idx <= Len(chapter_files)

AtPaper == pc = "papers" /\ file_idx <= Len(paper_files)

\* the file has been read: its records are added to all_questions
Extend(qs) ==
    /\ questions' = qs
    /\ all_questions' = all_questions \o qs
    /\ file_idx' = file_idx + 1
    /\ UNCHANGED <<lineVars, pc, chapter_files, paper_files, errors, seen, unique_questions, dedup_idx>>

\* a faulty variant of FileError: the error ends the loop over the files
ErrorEndsLoop ==
    /\ errors' = Append(errors, [list |-> pc, at |-> file_idx])
    /\ file_idx' = 1 + (IF pc = "chapters" THEN Len(chapter_files) ELSE Len(paper_files))
    /\ UNCHANGED <<lineVars, pc, questions, chapter_files, paper_files, all_questions, seen,
                   unique_questions, dedup_idx>>

\* parsing raised: the error is printed with the file and the loop goes on
FileError ==
    /\ errors' = Append(errors, [list |-> pc, at |-> file_idx])
    /\ file_idx' = file_idx + 1
    /\ UNCHANGED <<lineVars, pc, questions, chapter_files, paper_files, all_questions, seen,
                   unique_questions, dedup_idx>>

\* the number of records under which main turns to the universal parser
FallbackBelow == 5

StructuredEnough(structured) ==
    /\ Len(structured) >= FallbackBelow
    /\ Extend(structured)

ChapterStructured ==
    /\ strategy = "main"
    /\ AtChapter
    /\ chapter_files[file_idx].opens
    /\ StructuredEnough(parse_chapter_bank(chapter_files[file_idx].paragraphs,
                                           chapter_files[file_idx].name))

\* a faulty variant of Fallback: the universal records are added to the
\* structured ones
FallbackMerged(structured, universal) ==
    /\ Len(structured) < FallbackBelow
    /\ Extend(structured \o universal)

\* a faulty variant of Fallback: the few structured records are used
StructuredKept(structured, universal) ==
    /\ Len(structured) < FallbackBelow
    /\ Extend(structured)

Fallback(structured, universal) ==
    /\ Len(structured) < FallbackBelow
    /\ Extend(universal)

ChapterFallback ==
    /\ strategy = "main"
    /\ AtChapter
    /\ chapter_files[file_idx].opens
    /\ Fallback(parse_chapter_bank(chapter_files[file_idx].paragraphs,
                                   chapter_files[file_idx].name),
                parse_document_universal(chapter_files[file_idx].paragraphs,
                                         "Chapter - " \o chapter_files[file_idx].name,
                                         chapter_files[file_idx].name))

ChapterError ==
    /\ AtChapter
    /\ ~chapter_files[file_idx].opens
    /\ FileError

ChaptersDone ==
    /\ pc = "chapters"
    /\ file_idx > Len(chapter_files)
    /\ pc' = "papers"
    /\ file_idx' = 1
    /\ UNCHANGED <<lineVars, questions, chapter_files, paper_files, errors, all_questions, seen,
                   unique_questions, dedup_idx>>

PaperParsed ==
    /\ strategy = "main"
    /\ AtPaper
    /\ paper_files[file_idx].opens
    /\ Extend(parse_document_universal(paper_files[file_idx].paragraphs,
                                       paper_files[file_idx].name, ChapterName))

PaperError ==
    /\ AtPaper
    /\ ~paper_files[file_idx].opens
    /\ FileError

PapersDone ==
    /\ strategy = "main"
    /\ pc = "papers"
    /\ file_idx > Len(paper_files)
    /\ pc' = "dedup"
    /\ UNCHANGED <<lineVars, questions, chapter_files, paper_files, errors, file_idx, all_questions,
                   seen, unique_questions, dedup_idx>>

\* the length of the text the fingerprint is taken from
HashLen == 100

\* s[:n]
Prefix(s, n) == IF n < Len(s) THEN SubSeq(s, 1, n) ELSE s

\* a faulty variant of q_hash: the text is not cut to its first hundred
\* characters
HashOfWholeText(q) == strip(lower(q.questionText))

q_hash(q) == strip(lower(Prefix(q.questionText, HashLen)))

AtRecord == pc = "dedup" /\ dedup_idx <= Len(all_questions)

\* a faulty variant of DedupKeep: seen holds the last fingerprint only
DedupKeepLastSeen ==
    /\ AtRecord
    /\ q_hash(all_questions[dedup_idx]) \notin seen
    /\ seen' = {q_hash(all_questions[dedup_idx])}
    /\ unique_questions' = Append(unique_questions, all_questions[dedup_idx])
    /\ dedup_idx' = dedup_idx + 1
    /\ UNCHANGED <<lineVars, pc, questions, chapter_files, paper_files, errors, file_idx, all_questions>>

DedupKeep ==
    /\ AtRecord
    /\ q_hash(all_questions[dedup_idx]) \notin seen
    /\ seen' = seen \cup {q_hash(all_questions[dedup_idx])}
    /\ unique_questions' = Append(unique_questions, all_questions[dedup_idx])
    /\ dedup_idx' = dedup_idx + 1
    /\ UNCHANGED <<lineVars, pc, questions, chapter_files, paper_files, errors, file_idx, all_questions>>

DedupDrop ==
    /\ AtRecord
    /\ q_hash(all_questions[dedup_idx]) \in seen
    /\ dedup_idx' = dedup_idx + 1
    /\ UNCHANGED <<lineVars, pc, questions, chapter_files, paper_files, errors, file_idx, all_questions,
                   seen, unique_questions>>

\* the unique records are written to parsed_questions.json and returned
Save ==
    /\ pc = "dedup"
    /\ dedup_idx > Len(all_questions)
    /\ pc' = "done"
    /\ UNCHANGED <<lineVars, questions, mainVars>>

NextMain ==
    \/ ChapterStructured \/ ChapterFallback \/ ChapterError \/ ChaptersDone
    \/ PaperParsed \/ PaperError \/ PapersDone
    \/ DedupKeep \/ DedupDrop \/ Save

InitMain == InitFiles(ChapterPool, MainPaperPool)

SpecMain == InitMain /\ [][NextMain]_vars

InitDedup == InitFiles(DedupChapterPool, PaperPool)

SpecDedup == InitDedup /\ [][NextMain]_vars


(***************************************************************************)
(* One function called alone: clean_text of either file, extract_marks     *)
(* detect_question_type and parse_chapter_bank of parse_all_docs_v2.py.    *)
(* The texts are made of pieces.                                           *)
(***************************************************************************)
\* the most pieces of a text given to clean_text or to extract_marks
MaxPieces == 3

\* the most pieces of a text given to detect_question_type
MaxTypePieces == 2

RECURSIVE Glue(_)
Glue(pieces) == IF pieces = <<>> THEN "" ELSE Head(pieces) \o Glue(Tail(pieces))

\* pagination artifacts, parts of them, white space and a word
CleanPieces == {"Page: 1/2", "Page 1 of 2", "Page:", " 1/2", "Pa", "ge: 3/4", "  ", "loop"}

CleanTexts == {Glue(pieces) : pieces \in DocsOver(CleanPieces, MaxPieces)}

\* a mark annotation of each shape, a bare number and a sentence
MarkPieces ==
    {"[7 marks]", "(4 m)", "2 marks", "[5]", "Marks 6", "3", "Explain photosynthesis."}

MarkTexts == {join(" ", pieces) : pieces \in DocsOver(MarkPieces, MaxPieces)}

\* the keywords of the types, mark annotations and a word
TypePieces ==
    {"State true or false", "True/False", "Assertion", "Reason", "Fill in", "fill up",
     "Match", "column", "[5]", "[2 marks]", "[1]", "Define"}

TypeTexts == {join(" ", pieces) : pieces \in DocsOver(TypePieces, MaxTypePieces)}

OptionLists == {<<>>, <<"A) one">>, <<"A) one", "B) two">>, <<"A) one", "B) two", "C) three">>}

\* numbered questions with and without the article "a", and options
BankPieces ==
    {"1. Which of these is a variable?", "2. Which of these is the loop?", "(c) only",
     "(d) none"}

BankTexts == {join(" ", pieces) : pieces \in DocsOver(BankPieces, MaxPieces)}

Functions ==
    {"clean_text", "clean_text_v1", "extract_marks", "detect_question_type",
     "parse_chapter_bank"}

ArgsOf(function) ==
    CASE function \in {"clean_text", "clean_text_v1"} -> {<<text>> : text \in CleanTexts}
      [] function = "extract_marks" -> {<<text>> : text \in MarkTexts}
      [] function = "parse_chapter_bank" -> {<<<<text>>>> : text \in BankTexts}
      [] function = "detect_question_type" ->
            {<<text, options>> : text \in TypeTexts, options \in OptionLists}

InitCalls ==
    /\ strategy \in Functions
    /\ args \in ArgsOf(strategy)
    /\ result = None
    /\ ServiceIdle
    /\ pc = "call"
    /\ paragraphs = <<>>
    /\ lines = <<>>
    /\ questions = <<>>
    /\ LoopInit
    /\ MainIdle

Calling(function) == strategy = function /\ pc = "call"

\* the function returns v
Returns(v) ==
    /\ result' = Some(v)
    /\ pc' = "returned"
    /\ UNCHANGED <<strategy, paragraphs, lines, args, serviceVars, idx, loopVars, questions,
                   mainVars>>

CallCleanText == Calling("clean_text") /\ Returns(clean_text(args[1]))

CallCleanTextV1 == Calling("clean_text_v1") /\ Returns(clean_text_v1(args[1]))

CallExtractMarks == Calling("extract_marks") /\ Returns(extract_marks(args[1]))

CallDetectQuestionType ==
    Calling("detect_question_type") /\ Returns(detect_question_type(args[1], args[2]))

\* the document has the paragraphs args[1]
CallParseChapterBank ==
    Calling("parse_chapter_bank") /\ Returns(parse_chapter_bank(args[1], ChapterName))

NextCalls ==
    \/ CallCleanText \/ CallCleanTextV1 \/ CallExtractMarks \/ CallDetectQuestionType
    \/ CallParseChapterBank

SpecCalls == InitCalls /\ [][NextCalls]_vars

(***************************************************************************)
(* The file loops of main in both files.  main of parse_all_docs.py reads  *)
(* the chapter banks with parse_chapter_question_bank and the papers with  *)
(* parse_question_paper, and saves all_questions as they are.  In main of  *)
(* parse_all_docs_v2.py the second Document() call, the one of the         *)
(* universal parser after the structured extractor has returned, can       *)
(* raise as well.                                                          *)
(***************************************************************************)
ChapterParsedV1 ==
    /\ strategy = "main_v1"
    /\ AtChapter
    /\ chapter_files[file_idx].opens
    /\ Extend(parse_chapter_question_bank(chapter_files[file_idx].paragraphs,
                                          chapter_files[file_idx].name))

PaperParsedV1 ==
    /\ strategy = "main_v1"
    /\ AtPaper
    /\ paper_files[file_idx].opens
    /\ Extend(parse_question_paper(paper_files[file_idx].paragraphs, paper_files[file_idx].name))

\* all_questions is written to parsed_questions.json and returned
SaveAll ==
    /\ strategy = "main_v1"
    /\ pc = "papers"
    /\ file_idx > Len(paper_files)
    /\ pc' = "done"
    /\ UNCHANGED <<lineVars, questions, mainVars>>

\* the structured extractor returned fewer records than needed and
\* Document() raises in the universal parser
ChapterFallbackError ==
    /\ strategy = "main"
    /\ AtChapter
    /\ chapter_files[file_idx].opens
    /\ Len(parse_chapter_bank(chapter_files[file_idx].paragraphs, chapter_files[file_idx].name))
          < FallbackBelow
    /\ FileError

\* a chapter bank whose last question is too short for a record
ShortEndDoc == <<"1. Why use the for loop? Ans: to repeat", "Q2. Why?">>

RunChapterPool ==
    { File(TRUE, "Functions", FiveQuestionsDoc),
      File(TRUE, "File Handling", ShortEndDoc),
      File(FALSE, "Exception Handling", <<>>) }

\* a paper that ends inside the options of a question, a paper that begins
\* with lines outside any question, and one that cannot be read
RunPaperPool ==
    { File(TRUE, "QP XII-1", <<"1. Why use the for loop? [3]", "(a) to repeat", "(b) to stop">>),
      File(TRUE, "SQP 2024-25", <<"(c) to go on", "and then to stop", "2. Why use the while loop?">>),
      File(FALSE, "KV Region Preboard 2025-26", <<>>) }

InitRuns ==
    /\ strategy \in {"main", "main_v1"}
    /\ paragraphs = <<>>
    /\ lines = <<>>
    /\ LoopInit
    /\ CallIdle
    /\ pc = "chapters"
    /\ questions = <<>>
    /\ chapter_files \in DocsOver(RunChapterPool, MaxChapterFiles)
    /\ paper_files \in DocsOver(RunPaperPool, MaxPaperFiles)
    /\ file_idx = 1
    /\ all_questions = <<>>
    /\ seen = {}
    /\ unique_questions = <<>>
    /\ dedup_idx = 1
    /\ errors = <<>>

NextRuns ==
    \/ NextMain
    \/ ChapterFallbackError
    \/ ChapterParsedV1 \/ PaperParsedV1 \/ SaveAll

SpecRuns == InitRuns /\ [][NextRuns]_vars

(***************************************************************************)
(* The paper loop of main of parse_all_docs_v2.py with every call of       *)
(* parse_document_universal run a line at a time: the locals of the call   *)
(* are the variables of the loop, set anew when the call starts.  Every    *)
(* call gets the labels SourceName and ChapterName.                        *)
(***************************************************************************)
AtCall == pc = "call" /\ file_idx <= Len(paper_files)

\* a faulty variant of PaperOpened: current_q_num is left as the call
\* before had it
PaperOpenedKeepingNumber ==
    /\ strategy = "universal"
    /\ AtCall
    /\ paper_files[file_idx].opens
    /\ paragraphs' = paper_files[file_idx].paragraphs
    /\ lines' = UniversalLines(paper_files[file_idx].paragraphs)
    /\ idx' = 1
    /\ question_buffer' = UInit.question_buffer
    /\ current_options' = UInit.current_options
    /\ current_marks' = UInit.current_marks
    /\ questions' = UInit.questions
    /\ pc' = "loop"
    /\ UNCHANGED <<strategy, args, result, serviceVars, current_q_num, current_question, in_options,
                   current_answer, mainVars>>

\* Document(filepath) succeeds; the text is split into lines and the locals
\* are set
PaperOpened ==
    /\ strategy = "universal"
    /\ AtCall
    /\ paper_files[file_idx].opens
    /\ paragraphs' = paper_files[file_idx].paragraphs
    /\ lines' = UniversalLines(paper_files[file_idx].paragraphs)
    /\ idx' = 1
    /\ question_buffer' = UInit.question_buffer
    /\ current_options' = UInit.current_options
    /\ current_marks' = UInit.current_marks
    /\ current_q_num' = UInit.current_q_num
    /\ questions' = UInit.questions
    /\ pc' = "loop"
    /\ UNCHANGED <<strategy, args, result, serviceVars, current_question, in_options, current_answer,
                   mainVars>>

\* Document(filepath) raises
PaperUnreadable ==
    /\ strategy = "universal"
    /\ AtCall
    /\ ~paper_files[file_idx].opens
    /\ FileError

\* the call returns questions and main extends all_questions with them
PaperReturned ==
    /\ strategy = "universal"
    /\ pc = "done"
    /\ paper_files # <<>>
    /\ file_idx <= Len(paper_files)
    /\ all_questions' = all_questions \o questions
    /\ file_idx' = file_idx + 1
    /\ pc' = "call"
    /\ UNCHANGED <<lineVars, questions, chapter_files, paper_files, seen, unique_questions,
                   dedup_idx, errors>>

\* a paper with a section header and an OR line; its last question has
\* nothing after its number and an option on the next line
HeaderPaper ==
    File(TRUE, "SSM Final 2025-26",
         <<"Section A", "3. Define the loop of the file [5]", "OR", "Q4.",
           "(a) to repeat the lines">>)

\* a paper with a line that starts with a number, a space and a lowercase
\* letter after its question; the question is the one of another paper,
\* without its mark and its options
NotePaper == File(TRUE, "SQP 2024-25", <<"1. Why use the for loop?", "3 marks each">>)

\* a paper whose question has its mark annotation on the next line
MarksPaper == File(TRUE, "PT2 2025-26", <<"1. Explain the working of loops", "(5 marks)">>)

SequencePool == RunPaperPool \cup {HeaderPaper, NotePaper, MarksPaper}

InitPapers ==
    /\ strategy = "universal"
    /\ paragraphs = <<>>
    /\ lines = <<>>
    /\ LoopInit
    /\ CallIdle
    /\ pc = "call"
    /\ questions = <<>>
    /\ chapter_files = <<>>
    /\ paper_files \in DocsOver(SequencePool, MaxPaperFiles)
    /\ file_idx = 1
    /\ all_questions = <<>>
    /\ seen = {}
    /\ unique_questions = <<>>
    /\ dedup_idx = 1
    /\ errors = <<>>

NextPapers == PaperOpened \/ PaperUnreadable \/ UNext \/ PaperReturned

SpecPapers == InitPapers /\ [][NextPapers]_vars

(***************************************************************************)
(* The runs in which records are emitted a line at a time: one document    *)
(* read by one strategy, and the paper loop followed by the deduplication  *)
(* of main.                                                                *)
(***************************************************************************)
\* the last paper has been read
PapersRead ==
    /\ strategy = "universal"
    /\ pc = "call"
    /\ file_idx > Len(paper_files)
    /\ pc' = "dedup"
    /\ UNCHANGED <<lineVars, questions, mainVars>>

InitRecords == Init \/ InitPapers

NextRecords ==
    \/ Next
    \/ PaperOpened \/ PaperUnreadable \/ PaperReturned \/ PapersRead
    \/ DedupKeep \/ DedupDrop \/ Save

SpecRecords == InitRecords /\ [][NextRecords]_vars

(***************************************************************************)
(* The two line-based parsers of parse_all_docs.py on documents with short *)
(* questions.                                                              *)
(***************************************************************************)
\* a question of 12 characters, one that is only a mark annotation, a header,
\* an option with an OR line, and an answer with a body line
ShortPool ==
    { "2. Define loops",
      "1. [5]",
      "Section A",
      "(a) one\nOR",
      "Ans: two\nmore text" }

InitShort == InitWith({"paper", "bank"}, DocsOver(ShortPool, MaxParagraphs))

NextShort == PNext \/ BNext

SpecShort == InitShort /\ [][NextShort]_vars


(***************************************************************************)
(* server/services/question_parser.py: extract_questions_from_images.  One *)
(* call of the vision model for each page; replies[k] is what the call for *)
(* page k gives.  The pages are images that encode_image_to_base64 writes  *)
(* as PNG.  args holds subject, class_level and exam_type.                 *)
(***************************************************************************)
\* the most pages of an uploaded paper
MaxPages == 2

\* JSON values: null, arrays of questions and objects of keys with values
JsonNull == [json |-> "null", items |-> <<>>, entries |-> <<>>]

JsonArray(items) == [json |-> "array", items |-> items, entries |-> <<>>]

JsonObject(entries) == [json |-> "object", items |-> <<>>, entries |-> entries]

Entry(key, value) == [key |-> key, value |-> value]

EmptyObject == JsonObject(<<>>)

\* d[key] = value
SetKey(d, key, value) ==
    JsonObject(SelectSeq(d.entries, LAMBDA e : e.key # key) \o <<Entry(key, value)>>)

\* a question of a reply: its number, its content, and the page number and
\* the chapter hint the model wrote for it, if any
ReplyQuestion(number, page, content, hint) ==
    [questionNumber |-> number, pageNumber |-> page, subject |-> None, grade |-> None,
     content |-> content, chapterHint |-> hint, topicHint |-> None]

\* the decoded reply: each of the keys "questions" and "paperMetadata" is
\* absent or has a value
Decoded(qs, metadata) == [questions |-> qs, paperMetadata |-> metadata]

\* What the call for a page gives: the call raises; the content is JSON; the
\* content holds a JSON object inside other text; the content has braces
\* around text that is no JSON; the content has no braces.
Raises == [kind |-> "raises", result |-> None]

Json(decoded) == [kind |-> "json", result |-> Some(decoded)]

Wrapped(decoded) == [kind |-> "wrapped", result |-> Some(decoded)]

Broken == [kind |-> "broken", result |-> None]

Prose == [kind |-> "prose", result |-> None]

ReplyPool ==
    { Raises, Broken, Prose,
      Json(Decoded(Some(JsonArray(<<ReplyQuestion("1", None, "State the law of current electricity", None),
                                   ReplyQuestion("2", Some(9), "Define the term", None)>>)),
                   Some(JsonObject(<<Entry("totalMarks", "80")>>)))),
      Wrapped(Decoded(Some(JsonArray(<<ReplyQuestion("3", None, "Draw the model of atoms", Some("Nuclei"))>>)), None)),
      Json(Decoded(None, Some(JsonObject(<<Entry("totalMarks", "40")>>)))),
      Json(Decoded(Some(JsonNull), None)),
      Json(Decoded(Some(JsonArray(<<ReplyQuestion("4", None, "Define the term", None)>>)), Some(JsonNull))) }

\* json.loads(content), then the search of an object in the content: the
\* decoded value, or none when an exception leaves the try block
ResultOf(reply) ==
    CASE reply.kind \in {"json", "wrapped"} -> reply.result
      [] reply.kind = "prose" -> Some(Decoded(Some(JsonArray(<<>>)), Some(EmptyObject)))
      [] OTHER -> None

\* "for q in result['questions']" raises on a value that is no list
PageFails(reply) ==
    IF ResultOf(reply) = None THEN TRUE
    ELSE Val(ResultOf(reply)).questions = Some(JsonNull)

\* a faulty variant of Stamped: the page number of the reply is kept
StampedWhenAbsent(q, page, subject, class_level) ==
    [q EXCEPT !.pageNumber = IF IsSome(@) THEN @ ELSE Some(page),
              !.subject = IF Truthy(subject) THEN subject ELSE @,
              !.grade = IF Truthy(class_level) THEN class_level ELSE @]

\* the page number is set, and subject and grade when they are provided
Stamped(q, page, subject, class_level) ==
    [q EXCEPT !.pageNumber = Some(page),
              !.subject = IF Truthy(subject) THEN subject ELSE @,
              !.grade = IF Truthy(class_level) THEN class_level ELSE @]

\* the questions a page adds to all_questions
PageQuestions(decoded, page, subject, class_level) ==
    IF IsSome(decoded.questions)
    THEN [k \in 1..Len(Val(decoded.questions).items) |->
             Stamped(Val(decoded.questions).items[k], page, subject, class_level)]
    ELSE <<>>

\* "if 'paperMetadata' in result and i == 0"
PageMetadata(decoded, index, metadata) ==
    IF IsSome(decoded.paperMetadata) /\ index = 0 THEN Val(decoded.paperMetadata)
    ELSE metadata

\* the call of the vision model for the page
VisionCall(page) == [call |-> "chat.completions.create", page |-> page]

AtPage == pc = "pages" /\ loop_i < Len(images)

extractFrame ==
    <<strategy, paragraphs, lines, args, file, openai_api_key, content_type, images, response,
      replies, token, total_uploaded, failed_batches, idx, loopVars, questions, chapter_files,
      paper_files, file_idx, seen, unique_questions, dedup_idx, errors>>

\* a faulty variant of PageError: the error ends the loop over the pages
ErrorEndsPages ==
    /\ AtPage
    /\ PageFails(replies[loop_i + 1])
    /\ calls' = Append(calls, VisionCall(loop_i + 1))
    /\ loop_i' = Len(images)
    /\ UNCHANGED <<pc, result, all_questions, paper_metadata, extractFrame>>

\* the page is read: its questions are added, and its metadata when it is
\* the first page
PageRead ==
    /\ AtPage
    /\ ~PageFails(replies[loop_i + 1])
    /\ calls' = Append(calls, VisionCall(loop_i + 1))
    /\ all_questions' = all_questions \o
                        PageQuestions(Val(ResultOf(replies[loop_i + 1])), loop_i + 1,
                                      args.subject, args.class_level)
    /\ paper_metadata' = PageMetadata(Val(ResultOf(replies[loop_i + 1])), loop_i,
                                      paper_metadata)
    /\ loop_i' = loop_i + 1
    /\ UNCHANGED <<pc, result, extractFrame>>

\* the call or the decoding of its reply raises: the error is printed and
\* the loop goes on
PageError ==
    /\ AtPage
    /\ PageFails(replies[loop_i + 1])
    /\ calls' = Append(calls, VisionCall(loop_i + 1))
    /\ loop_i' = loop_i + 1
    /\ UNCHANGED <<pc, result, all_questions, paper_metadata, extractFrame>>

\* "paper_metadata['detectedSubject'] = subject" and the like raise on null
OverrideRaises(metadata, subject, class_level) ==
    metadata = JsonNull /\ (Truthy(subject) \/ Truthy(class_level))

WithClass(metadata, class_level) ==
    IF Truthy(class_level) THEN SetKey(metadata, "detectedClass", Val(class_level))
    ELSE metadata

Overridden(metadata, subject, class_level) ==
    WithClass(IF Truthy(subject) THEN SetKey(metadata, "detectedSubject", Val(subject))
              ELSE metadata,
              class_level)

ExtractResult(qs, metadata, pages, subject, class_level) ==
    [questions |-> qs, paperMetadata |-> Overridden(metadata, subject, class_level),
     totalPages |-> pages]

\* the loop is over: the metadata is overridden and the result is returned
ExtractReturns ==
    /\ pc = "pages"
    /\ loop_i >= Len(images)
    /\ ~OverrideRaises(paper_metadata, args.subject, args.class_level)
    /\ result' = Some(ExtractResult(all_questions, paper_metadata, Len(images), args.subject,
                                    args.class_level))
    /\ pc' = "returned"
    /\ UNCHANGED <<calls, loop_i, all_questions, paper_metadata, extractFrame>>

\* the metadata of the first page is null and a subject or a class is given
ExtractRaises ==
    /\ pc = "pages"
    /\ loop_i >= Len(images)
    /\ OverrideRaises(paper_metadata, args.subject, args.class_level)
    /\ pc' = "raised"
    /\ UNCHANGED <<calls, loop_i, result, all_questions, paper_metadata, extractFrame>>

\* the locals after one more page
PageApplied(st, reply, index, subject, class_level) ==
    IF PageFails(reply) THEN st
    ELSE [all_questions |-> st.all_questions \o
                            PageQuestions(Val(ResultOf(reply)), index + 1, subject, class_level),
          paper_metadata |-> PageMetadata(Val(ResultOf(reply)), index, st.paper_metadata)]

\* the locals after the first n pages
RECURSIVE PagesApplied(_, _, _, _)
PagesApplied(page_replies, n, subject, class_level) ==
    IF n = 0 THEN [all_questions |-> <<>>, paper_metadata |-> EmptyObject]
    ELSE PageApplied(PagesApplied(page_replies, n - 1, subject, class_level),
                     page_replies[n], n - 1, subject, class_level)

ExtractOutcome(st, pages, subject, class_level) ==
    IF OverrideRaises(st.paper_metadata, subject, class_level) THEN None
    ELSE Some(ExtractResult(st.all_questions, st.paper_metadata, pages, subject, class_level))

\* the whole call: what it returns, or none when it raises
extract_questions_from_images(page_images, page_replies, subject, class_level) ==
    ExtractOutcome(PagesApplied(page_replies, Len(page_images), subject, class_level),
                   Len(page_images), subject, class_level)

\* subject, class_level and exam_type of the request
FormPool ==
    [subject : {None, Some("Physics")}, class_level : {None, Some("12")},
     exam_type : {None}]

InitExtract ==
    /\ strategy = "extract_questions_from_images"
    /\ pc = "pages"
    /\ args \in FormPool
    /\ \E pages \in 0..MaxPages :
          /\ images = [k \in 1..pages |-> k]
          /\ replies \in [1..pages -> ReplyPool]
    /\ result = None
    /\ loop_i = 0
    /\ paper_metadata = EmptyObject
    /\ all_questions = <<>>
    /\ calls = <<>>
    /\ file = <<>>
    /\ openai_api_key = ""
    /\ content_type = <<>>
    /\ response = <<>>
    /\ token = <<>>
    /\ total_uploaded = 0
    /\ failed_batches = <<>>
    /\ paragraphs = <<>>
    /\ lines = <<>>
    /\ LoopInit
    /\ questions = <<>>
    /\ chapter_files = <<>>
    /\ paper_files = <<>>
    /\ file_idx = 1
    /\ seen = {}
    /\ unique_questions = <<>>
    /\ dedup_idx = 1
    /\ errors = <<>>

NextExtract == PageRead \/ PageError \/ ExtractReturns \/ ExtractRaises

SpecExtract == InitExtract /\ [][NextExtract]_vars

(***************************************************************************)
(* The endpoint POST /api/parser/parse-paper, of server/parser_service.py  *)
(* and of server/services/parser_routes.py (strategy names the file).      *)
(***************************************************************************)
AllowedTypes == {"application/pdf", "image/png", "image/jpeg", "image/jpg"}

Generic == "application/octet-stream"

\* file.filename.lower().split('.')[-1] if file.filename else ''
Extension(filename) ==
    IF Truthy(filename)
    THEN SplitOn(lower(Val(filename)), ".")[Len(SplitOn(lower(Val(filename)), "."))]
    ELSE ""

TypeOfExtension(ext) ==
    CASE ext = "pdf" -> "application/pdf"
      [] ext = "png" -> "image/png"
      [] ext \in {"jpg", "jpeg"} -> "image/jpeg"
      [] OTHER -> Generic

\* parser_service.py: a generic or missing content type is replaced by the
\* one of the extension of the file name
ServiceType(upload) ==
    IF ~Truthy(upload.content_type) \/ upload.content_type = Some(Generic)
    THEN Some(TypeOfExtension(Extension(upload.filename)))
    ELSE upload.content_type

\* the content type the endpoint validates and converts with
RequestType(upload) ==
    IF strategy = "parser_service" THEN ServiceType(upload) ELSE upload.content_type

\* the least length of an API key
MinKeyLen == 20

KeyValid(key) == key # "" /\ Len(key) >= MinKeyLen

\* an answer of the endpoint: an error with its detail, or the body
Answer(status_code, detail, body) ==
    [status_code |-> status_code, detail |-> detail, body |-> body]

\* str(e) of the exceptions the try block can raise; the text of an
\* HTTPException is empty or holds its status and detail, by the version of
\* the framework
ErrorTexts(exception) ==
    CASE exception = "HTTPException" -> {"", "400: Could not process the uploaded file"}
      [] exception = "UnidentifiedImageError" -> {"cannot identify image file"}
      [] exception = "TypeError" -> {"'NoneType' object does not support item assignment"}

\* "except Exception as e": the generic answer
Caught(text) == Answer(500, "Error parsing paper: " \o text, None)

endpointFrame ==
    <<strategy, paragraphs, lines, args, file, openai_api_key, token, total_uploaded,
      failed_batches, idx, loopVars, questions, chapter_files, paper_files, file_idx, seen,
      unique_questions, dedup_idx, errors>>

extractVars == <<replies, loop_i, paper_metadata, all_questions, result>>

Answers(answer) ==
    /\ response' = Some(answer)
    /\ pc' = "done"

TypeRejected ==
    /\ pc = "validate_type"
    /\ ~(IsSome(RequestType(file)) /\ Val(RequestType(file)) \in AllowedTypes)
    /\ Answers(Answer(400, "Invalid file type. Allowed: PDF, PNG, JPG. Got: "
                           \o (IF IsSome(RequestType(file)) THEN Val(RequestType(file))
                               ELSE "None"),
                      None))
    /\ UNCHANGED <<content_type, images, calls, extractVars, endpointFrame>>

TypeAccepted ==
    /\ pc = "validate_type"
    /\ IsSome(RequestType(file))
    /\ Val(RequestType(file)) \in AllowedTypes
    /\ content_type' = RequestType(file)
    /\ pc' = "validate_key"
    /\ UNCHANGED <<response, images, calls, extractVars, endpointFrame>>

KeyRejected ==
    /\ pc = "validate_key"
    /\ ~KeyValid(openai_api_key)
    /\ Answers(Answer(400, "Valid OpenAI API key is required", None))
    /\ UNCHANGED <<content_type, images, calls, extractVars, endpointFrame>>

KeyAccepted ==
    /\ pc = "validate_key"
    /\ KeyValid(openai_api_key)
    /\ pc' = "convert"
    /\ UNCHANGED <<response, content_type, images, calls, extractVars, endpointFrame>>

\* the numbers of pages process_image_file can give for the type: the pages
\* of a PDF, one image otherwise
PageCounts(mime_type) == IF mime_type = "application/pdf" THEN 0..MaxPages ELSE {1}

ConversionCall == [call |-> "process_image_file", page |-> 0]

\* file.read() and process_image_file
Converted ==
    /\ pc = "convert"
    /\ \E pages \in PageCounts(Val(content_type)) : images' = [k \in 1..pages |-> k]
    /\ calls' = Append(calls, ConversionCall)
    /\ pc' = "check"
    /\ UNCHANGED <<response, content_type, extractVars, endpointFrame>>

\* process_image_file raises on a file that is no image
ConversionFails ==
    /\ pc = "convert"
    /\ calls' = Append(calls, ConversionCall)
    /\ \E text \in ErrorTexts("UnidentifiedImageError") : Answers(Caught(text))
    /\ UNCHANGED <<content_type, images, extractVars, endpointFrame>>

\* a faulty variant of NoImages: the HTTPException leaves the handler
NoImagesAnswers400 ==
    /\ pc = "check"
    /\ images = <<>>
    /\ Answers(Answer(400, "Could not process the uploaded file", None))
    /\ UNCHANGED <<content_type, images, calls, extractVars, endpointFrame>>

\* "if not images: raise HTTPException(400, ...)" inside the try block: the
\* exception is caught by "except Exception"
NoImages ==
    /\ pc = "check"
    /\ images = <<>>
    /\ \E text \in ErrorTexts("HTTPException") : Answers(Caught(text))
    /\ UNCHANGED <<content_type, images, calls, extractVars, endpointFrame>>

\* the replies of the vision model in the runs of the endpoint
EndpointReplies ==
    { Raises,
      Json(Decoded(Some(JsonArray(<<ReplyQuestion("1", None,
                                                   "State the law of current electricity", None),
                                    ReplyQuestion("3", None, "Draw the model of atoms",
                                                  Some("Nuclei"))>>)),
                   Some(JsonObject(<<Entry("totalMarks", "80")>>)))),
      Json(Decoded(Some(JsonArray(<<ReplyQuestion("4", None, "Define the term", None)>>)),
                   Some(JsonNull))) }

VisionCalls(pages) == [k \in 1..pages |-> VisionCall(k)]

\* extract_questions_from_images returns
Extracted ==
    /\ pc = "check"
    /\ images # <<>>
    /\ \E page_replies \in [1..Len(images) -> EndpointReplies] :
          /\ IsSome(extract_questions_from_images(images, page_replies, args.subject,
                                                  args.class_level))
          /\ replies' = page_replies
          /\ result' = extract_questions_from_images(images, page_replies, args.subject,
                                                     args.class_level)
    /\ calls' = calls \o VisionCalls(Len(images))
    /\ pc' = "annotate"
    /\ UNCHANGED <<response, content_type, images, loop_i, paper_metadata, all_questions,
                   endpointFrame>>

\* extract_questions_from_images raises
ExtractionFails ==
    /\ pc = "check"
    /\ images # <<>>
    /\ \E page_replies \in [1..Len(images) -> EndpointReplies] :
          /\ extract_questions_from_images(images, page_replies, args.subject,
                                           args.class_level) = None
          /\ replies' = page_replies
    /\ calls' = calls \o VisionCalls(Len(images))
    /\ \E text \in ErrorTexts("TypeError") : Answers(Caught(text))
    /\ UNCHANGED <<content_type, images, loop_i, paper_metadata, all_questions, result,
                   endpointFrame>>

\* the subjects of CBSE_SUBJECTS the requests of the model name
CBSE_SUBJECTS ==
    [subject \in {"Physics"} |->
       <<"Electric Charges and Fields", "Electrostatic Potential", "Current Electricity",
         "Moving Charges and Magnetism", "Magnetism and Matter", "Electromagnetic Induction",
         "Alternating Current", "Electromagnetic Waves", "Ray Optics", "Wave Optics",
         "Dual Nature of Radiation", "Atoms", "Nuclei", "Semiconductor Electronics">>]

\* the least length of a keyword of a chapter is one more than this
ShortKeyword == 3

\* any(kw in content_lower for kw in chapter.lower().split() if len(kw) > 3);
\* the words of the chapters are separated by one space
ChapterMatches(chapter, content_lower) ==
    \E k \in 1..Len(SplitOn(lower(chapter), " ")) :
        /\ Len(SplitOn(lower(chapter), " ")[k]) > ShortKeyword
        /\ Contains(content_lower, SplitOn(lower(chapter), " ")[k])

Classification(chapter) == [chapter |-> chapter, topic |-> chapter]

FirstChapter(chapters, content_lower) ==
    IF \E k \in 1..Len(chapters) : ChapterMatches(chapters[k], content_lower)
    THEN Classification(Some(chapters[CHOOSE k \in 1..Len(chapters) :
                                         /\ ChapterMatches(chapters[k], content_lower)
                                         /\ \A j \in 1..(k - 1) :
                                                ~ChapterMatches(chapters[j], content_lower)]))
    ELSE Classification(None)

classify_question_chapter(content, subject) ==
    IF subject \notin DOMAIN CBSE_SUBJECTS THEN Classification(None)
    ELSE FirstChapter(CBSE_SUBJECTS[subject], lower(content))

\* "if not q.get('chapterHint')": the hints of the classification are set
Classified(q, subject) ==
    IF Truthy(q.chapterHint) THEN q
    ELSE [q EXCEPT !.chapterHint = classify_question_chapter(q.content, subject).chapter,
                   !.topicHint = classify_question_chapter(q.content, subject).topic]

ClassifiedAll(qs, subject) ==
    IF Truthy(subject) THEN [k \in 1..Len(qs) |-> Classified(qs[k], Val(subject))] ELSE qs

WithExamType(metadata, exam_type) ==
    IF Truthy(exam_type) THEN SetKey(metadata, "examType", Val(exam_type)) ELSE metadata

\* str(n) of a number
RECURSIVE Decimal(_)
Decimal(n) ==
    IF n < 10 THEN Slice("0123456789", n + 1, n + 1)
    ELSE Decimal(n \div 10) \o Slice("0123456789", (n % 10) + 1, (n % 10) + 1)

Body(extracted, subject, exam_type) ==
    [success |-> TRUE,
     questions |-> ClassifiedAll(extracted.questions, subject),
     paperMetadata |-> WithExamType(extracted.paperMetadata, exam_type),
     totalPages |-> extracted.totalPages,
     message |-> "Successfully extracted " \o Decimal(Len(extracted.questions))
                 \o " questions from " \o Decimal(extracted.totalPages) \o " page(s)"]

\* result["paperMetadata"]["examType"] = exam_type raises on null
ExamTypeRaises == Truthy(args.exam_type) /\ Val(result).paperMetadata = JsonNull

\* the exam type and the chapter hints are added and the body is returned
Responded ==
    /\ pc = "annotate"
    /\ ~ExamTypeRaises
    /\ Answers(Answer(200, "", Some(Body(Val(result), args.subject, args.exam_type))))
    /\ UNCHANGED <<content_type, images, calls, extractVars, endpointFrame>>

AnnotationFails ==
    /\ pc = "annotate"
    /\ ExamTypeRaises
    /\ \E text \in ErrorTexts("TypeError") : Answers(Caught(text))
    /\ UNCHANGED <<content_type, images, calls, extractVars, endpointFrame>>

\* the uploaded files: the content type of the request and the file name
Upload(type, filename) == [content_type |-> type, filename |-> filename]

UploadPool ==
    {Upload(type, filename) :
        type \in {None, Some("application/pdf"), Some("image/jpg"), Some(Generic),
                  Some("text/plain")},
        filename \in {None, Some("Paper.PDF"), Some("scan.jpeg"), Some("notes.txt")}}

\* no key, a key of 19 characters and a key of 20 characters
KeyPool == {"", "sk-0123456789abcdef", "sk-0123456789abcdefg"}

EndpointForms ==
    [subject : {None, Some("Physics")}, class_level : {None},
     exam_type : {None, Some("Unit Test")}]

InitEndpoint ==
    /\ strategy \in {"parser_service", "parser_routes"}
    /\ pc = "validate_type"
    /\ file \in UploadPool
    /\ openai_api_key \in KeyPool
    /\ args \in EndpointForms
    /\ content_type = None
    /\ images = <<>>
    /\ response = None
    /\ calls = <<>>
    /\ replies = <<>>
    /\ result = None
    /\ loop_i = 0
    /\ paper_metadata = EmptyObject
    /\ all_questions = <<>>
    /\ token = <<>>
    /\ total_uploaded = 0
    /\ failed_batches = <<>>
    /\ paragraphs = <<>>
    /\ lines = <<>>
    /\ LoopInit
    /\ questions = <<>>
    /\ chapter_files = <<>>
    /\ paper_files = <<>>
    /\ file_idx = 1
    /\ seen = {}
    /\ unique_questions = <<>>
    /\ dedup_idx = 1
    /\ errors = <<>>

NextEndpoint ==
    \/ TypeRejected \/ TypeAccepted \/ KeyRejected \/ KeyAccepted
    \/ Converted \/ ConversionFails \/ NoImages
    \/ Extracted \/ ExtractionFails \/ Responded \/ AnnotationFails

SpecEndpoint == InitEndpoint /\ [][NextEndpoint]_vars

(***************************************************************************)
(* upload_questions.py: login and the upload of the batches in main.       *)
(***************************************************************************)
BATCH_SIZE == 50

GRADE == "12"

SUBJECT == "Computer Science"

\* the most questions of parsed_questions.json in the runs of the upload
MaxQuestions == 101

\* the question at a position of parsed_questions.json; every third one
\* lacks the keys that upload_batch reads with a default
LoadedQuestion(k) ==
    [questionText |-> "Question " \o Decimal(k),
     type |-> IF k % 2 = 0 THEN "mcq" ELSE "short_answer",
     marks |-> IF k % 3 = 0 THEN None ELSE Some(2),
     options |-> IF k % 2 = 0 THEN Some(<<"yes", "no">>) ELSE None,
     correctAnswer |-> None,
     chapter |-> IF k % 3 = 0 THEN None ELSE Some("File Handling"),
     source |-> IF k % 3 = 0 THEN None ELSE Some("PT2 2025-26")]

\* q.get(key, default)
GetOr(o, default) == IF IsSome(o) THEN Val(o) ELSE default

\* the entry of "formatted" for a question
Formatted(q) ==
    [questionText |-> q.questionText,
     type |-> q.type,
     marks |-> GetOr(q.marks, 1),
     options |-> q.options,
     correctAnswer |-> q.correctAnswer,
     chapter |-> GetOr(q.chapter, "Mixed"),
     grade |-> GRADE,
     subject |-> SUBJECT,
     difficulty |-> "medium",
     source |-> GetOr(q.source, "Uploaded"),
     status |-> "draft"]

\* questions[i:i+BATCH_SIZE], for the 0-based i
Batch(qs, i) ==
    SubSeq(qs, i + 1, IF i + BATCH_SIZE < Len(qs) THEN i + BATCH_SIZE ELSE Len(qs))

\* the request of upload_batch: the token of the header and the payload
BulkCall(bearer, batch) ==
    [call |-> "upload_batch", token |-> bearer,
     questions |-> [k \in 1..Len(batch) |-> Formatted(batch[k])]]

batch_num(i) == (i \div BATCH_SIZE) + 1

\* the replies of the server to the login: the status and the token of the
\* body, if the body has one
LoginReply(status_code, body_token) == [status_code |-> status_code, token |-> body_token]

LoginReplies ==
    {LoginReply(200, Some("eyJhbGciOiJIUzI1NiJ9")), LoginReply(200, Some("")),
     LoginReply(200, None), LoginReply(401, None), LoginReply(401, Some("eyJhbGciOiJIUzI1NiJ9"))}

\* login: the token of a reply with status 200, None otherwise
login(reply) == IF reply.status_code = 200 THEN reply.token ELSE None

\* the outcomes of a batch: what requests.post and response.json() give
BatchReply(kind, status_code, count) ==
    [kind |-> kind, status_code |-> status_code, count |-> count]

BatchReplies ==
    {BatchReply("json", 200, None), BatchReply("json", 200, Some(0)),
     BatchReply("not json", 200, None), BatchReply("json", 500, None),
     BatchReply("raises", 0, None)}

\* the try block ends in one of its two failure branches
Failed(reply) == reply.kind = "raises" \/ reply.status_code # 200 \/ reply.kind = "not json"

uploadFrame ==
    <<strategy, paragraphs, lines, args, file, openai_api_key, content_type, images, result,
      paper_metadata, idx, loopVars, questions, mainVars>>

\* login returns a token
LoggedIn ==
    /\ pc = "login"
    /\ \E reply \in LoginReplies :
          /\ Truthy(login(reply))
          /\ response' = Some(reply)
          /\ token' = login(reply)
    /\ pc' = "upload"
    /\ UNCHANGED <<calls, replies, loop_i, total_uploaded, failed_batches, uploadFrame>>

\* "if not token: sys.exit(1)"
LoginRefused ==
    /\ pc = "login"
    /\ \E reply \in LoginReplies :
          /\ ~Truthy(login(reply))
          /\ response' = Some(reply)
          /\ token' = login(reply)
    /\ pc' = "exited"
    /\ UNCHANGED <<calls, replies, loop_i, total_uploaded, failed_batches, uploadFrame>>

\* requests.post of login raises: main ends with the exception
LoginRaises ==
    /\ pc = "login"
    /\ pc' = "raised"
    /\ UNCHANGED <<response, token, calls, replies, loop_i, total_uploaded, failed_batches,
                   uploadFrame>>

AtBatch == pc = "upload" /\ loop_i < Len(questions)

\* one turn of the loop: the batch is sent and the reply is handled
Attempt(reply) ==
    /\ calls' = Append(calls, BulkCall(Val(token), Batch(questions, loop_i)))
    /\ replies' = Append(replies, reply)
    /\ loop_i' = loop_i + BATCH_SIZE
    /\ UNCHANGED <<response, token, pc, uploadFrame>>

\* a faulty variant of BatchFailed: the loop ends at the failed batch
FailureEndsUpload ==
    /\ AtBatch
    /\ \E reply \in BatchReplies :
          /\ Failed(reply)
          /\ calls' = Append(calls, BulkCall(Val(token), Batch(questions, loop_i)))
          /\ replies' = Append(replies, reply)
    /\ failed_batches' = Append(failed_batches, batch_num(loop_i))
    /\ pc' = "done"
    /\ UNCHANGED <<response, token, loop_i, total_uploaded, uploadFrame>>

\* status 200 and a body that is JSON: the count is added
BatchUploaded ==
    /\ AtBatch
    /\ \E reply \in BatchReplies :
          /\ ~Failed(reply)
          /\ Attempt(reply)
          /\ total_uploaded' = total_uploaded
                               + GetOr(reply.count, Len(Batch(questions, loop_i)))
    /\ UNCHANGED failed_batches

\* another status, or an exception in the try block
BatchFailed ==
    /\ AtBatch
    /\ \E reply \in BatchReplies :
          /\ Failed(reply)
          /\ Attempt(reply)
    /\ failed_batches' = Append(failed_batches, batch_num(loop_i))
    /\ UNCHANGED total_uploaded

\* the loop is over: the summary is printed
UploadComplete ==
    /\ pc = "upload"
    /\ loop_i >= Len(questions)
    /\ pc' = "done"
    /\ UNCHANGED <<response, token, calls, replies, loop_i, total_uploaded, failed_batches,
                   uploadFrame>>

\* the numbers of questions of the runs: none, one, around one batch,
\* around two batches
QuestionCounts ==
    {0, 1, BATCH_SIZE - 1, BATCH_SIZE, BATCH_SIZE + 1, 2 * BATCH_SIZE, MaxQuestions}

InitUpload ==
    /\ strategy = "upload_questions"
    /\ pc = "login"
    /\ \E n \in QuestionCounts : questions = [k \in 1..n |-> LoadedQuestion(k)]
    /\ token = None
    /\ total_uploaded = 0
    /\ failed_batches = <<>>
    /\ loop_i = 0
    /\ calls = <<>>
    /\ replies = <<>>
    /\ response = None
    /\ args = <<>>
    /\ file = <<>>
    /\ openai_api_key = ""
    /\ content_type = <<>>
    /\ images = <<>>
    /\ result = None
    /\ paper_metadata = <<>>
    /\ all_questions = <<>>
    /\ paragraphs = <<>>
    /\ lines = <<>>
    /\ LoopInit
    /\ chapter_files = <<>>
    /\ paper_files = <<>>
    /\ file_idx = 1
    /\ seen = {}
    /\ unique_questions = <<>>
    /\ dedup_idx = 1
    /\ errors = <<>>

NextUpload ==
    LoggedIn \/ LoginRefused \/ LoginRaises \/ BatchUploaded \/ BatchFailed \/ UploadComplete

SpecUpload == InitUpload /\ [][NextUpload]_vars
(***************************************************************************)
(* Properties of the four strategies.                                      *)
(***************************************************************************)
HasOptions(q) == IsSome(q.options)

OptionCount(q) == IF HasOptions(q) THEN Len(Val(q.options)) ELSE 0

\* C4: in every record of every strategy, options that are present have at
\* least two entries and the type of the record is mcq.
C4_PresentOptionsAreMcq ==
    \A k \in 1..Len(questions) :
        HasOptions(questions[k]) => OptionCount(questions[k]) >= 2 /\ questions[k].type = "mcq"

\* C5: a record that was finalized with two or more options has the type
\* mcq, whatever keywords or mark annotations its text contains.
C5_OptionDominance ==
    \A k \in 1..Len(questions) : OptionCount(questions[k]) >= 2 => questions[k].type = "mcq"

\* a finished run that emitted a record with two options whose text holds
\* the keyword "true or false"
C5_Witness ==
    /\ pc = "done"
    /\ \E k \in 1..Len(questions) :
          /\ OptionCount(questions[k]) >= 2
          /\ Contains(lower(questions[k].questionText), "true or false")

\* C6: every record of every strategy has marks of at least 1, also when its
\* text carries the annotation [0] or none.
C6_MarksPositive == \A k \in 1..Len(questions) : questions[k].marks >= 1

\* a finished run that emitted the question annotated [0]
C6_Witness ==
    /\ pc = "done"
    /\ Contains(paragraphs[1], "[0]")
    /\ \E k \in 1..Len(questions) : Contains(questions[k].questionText, "Why use the for loop?")

\* C7: every record of the universal parser and of the structured extractor
\* has a text longer than 15 characters: a candidate whose final text has 15
\* characters or fewer gives no record.
C7_TextLongerThanMinimum ==
    strategy \in {"universal", "structured"} =>
        \A k \in 1..Len(questions) : Len(questions[k].questionText) > 15

\* a finished run of the universal parser over a question whose final text,
\* "Define the loop", has exactly 15 characters: no record
C7_Witness ==
    /\ pc = "done"
    /\ strategy = "universal"
    /\ paragraphs = <<"3. Define the loop [5]">>
    /\ questions = <<>>

\* the loop is about to read a line of the header denylist of its strategy
AtHeaderLine ==
    /\ pc = "loop"
    /\ idx <= Len(lines)
    /\ \/ strategy = "universal" /\ UIsHeader(lines[idx])
       \/ strategy = "paper" /\ PIsHeader(lines[idx])

HeaderTextAbsent ==
    strategy \in {"universal", "paper"} =>
        \A k \in 1..Len(questions) : ~Contains(questions[k].questionText, "General Instructions")

\* C10: in the universal and the simple-paper state machines the step that
\* reads a header line changes neither the body, the options, the marks, the
\* open-question marker nor the records, whatever is being accumulated; and
\* the text of the header line is in no record.
C10_HeaderSkip == [][AtHeaderLine => UNCHANGED <<loopVars, questions>>]_vars /\ []HeaderTextAbsent

\* a header line has just been read while options were being accumulated,
\* and they are still there
C10_Witness ==
    /\ strategy \in {"universal", "paper"}
    /\ idx > 1
    /\ lines[idx - 1] = "Section A: General Instructions"
    /\ current_options # <<>>

(***************************************************************************)
(* Properties of the universal parser on documents made of blocks.         *)
(***************************************************************************)
\* the four fields of a record the statements below are about
Shown(q) == [questionText |-> q.questionText, type |-> q.type, marks |-> q.marks,
             options |-> q.options]

ShownAll(qs) == [k \in 1..Len(qs) |-> Shown(qs[k])]

\* The record the round-trip statement describes for a numbered question:
\* the text as written, the options with their letters in upper case, mcq
\* from two options on and short_answer otherwise, the annotated mark or the
\* default of the type.
StatedOptions(item) ==
    [k \in 1..Len(item.opts) |-> upper(item.opts[k][1]) \o ") " \o item.opts[k][2]]

StatedType(item) == IF Len(item.opts) >= 2 THEN "mcq" ELSE "short_answer"

StatedMarks(item) ==
    IF IsSome(item.mark) THEN ToInt(Val(item.mark))
    ELSE IF StatedType(item) = "mcq" THEN 1 ELSE 2

StatedRecord(item) ==
    [questionText |-> item.text, type |-> StatedType(item), marks |-> StatedMarks(item),
     options |-> IF item.opts = <<>> THEN None ELSE Some(StatedOptions(item))]

ItemSeqs == DocsOver(ItemPool, MaxBlocks)

\* the document of a sequence of numbered questions
ItemDoc == [items \in ItemSeqs |-> ConcatBlocks([k \in 1..Len(items) |-> ItemLines(items[k])])]

StatedRecords(items) == [k \in 1..Len(items) |-> StatedRecord(items[k])]

HasTypeKeyword(text) ==
    \/ Contains(lower(text), "true or false") \/ Contains(lower(text), "true/false")
    \/ Contains(lower(text), "assertion") /\ Contains(lower(text), "reason")
    \/ Contains(lower(text), "fill in") \/ Contains(lower(text), "fill up")
    \/ Contains(lower(text), "match") /\ Contains(lower(text), "column")

EndsWith(text, word) ==
    Len(text) >= Len(word) /\ Slice(text, Len(text) - Len(word) + 1, Len(text)) = word

\* a numbered question for which the round trip is exact: a text of more than
\* 15 characters without digits or type keywords that does not end with the
\* word mark(s), a mark of at least 1, option texts that do not begin with a
\* closing character
Plain(item) ==
    /\ Len(item.text) > 15
    /\ \A i \in 1..Len(item.text) : At(item.text, i) \notin Digit
    /\ ~HasTypeKeyword(item.text)
    /\ ~EndsWith(lower(item.text), "mark") /\ ~EndsWith(lower(item.text), "marks")
    /\ IsSome(item.mark) => ToInt(Val(item.mark)) >= 1
    /\ \A k \in 1..Len(item.opts) : At(item.opts[k][2], 1) \notin {")", "]", ".", " "}

ExampleLines ==
    <<"1. What is inheritance? [2]", "(a) concept one", "(b) concept two",
      "2. Explain polymorphism with an example.">>

ExampleRecords ==
    << [questionText |-> "What is inheritance?", type |-> "mcq", marks |-> 2,
        options |-> Some(<<"A) concept one", "B) concept two">>)],
       [questionText |-> "Explain polymorphism with an example.", type |-> "short_answer",
        marks |-> 2, options |-> None] >>

\* C1 as stated: every document of numbered questions, each with an optional
\* bare bracketed mark and optional lettered option lines, gives exactly the
\* stated records, one for each numbered line, in order.
C1_RoundTripOfEveryQuestion ==
    pc = "done" =>
        \A items \in ItemSeqs : paragraphs = ItemDoc[items] => ShownAll(questions) = StatedRecords(items)

\* C1 amended: the documents whose numbered questions are all plain give
\* exactly the stated records, one for each numbered line, in order; the
\* four lines of the example give its two records.
C1_RoundTripOfPlainQuestions ==
    pc = "done" =>
        /\ \A items \in ItemSeqs :
              (paragraphs = ItemDoc[items] /\ \A k \in 1..Len(items) : Plain(items[k]))
                  => ShownAll(questions) = StatedRecords(items)
        /\ paragraphs = ExampleLines => ShownAll(questions) = ExampleRecords

\* the run over the four lines of the example has finished
C1_Witness == pc = "done" /\ paragraphs = ExampleLines /\ Len(questions) = 2

\* a numbered line of three characters
ShortNumbered(line) == Len(line) = 3 /\ \E i \in 1..3 : At(line, i) \in Digit

\* a longer line that starts a question
RealQuestion(line) == Len(line) > 3 /\ UIsBoundary(line)

Suffix(s, n) == SubSeq(s, Len(s) - n + 1, Len(s))

Without(s, i) == SubSeq(s, 1, i - 1) \o SubSeq(s, i + 1, Len(s))

\* qs: the records of a document; without: those of the document without its
\* short line; following: those of the part from the question after the short
\* line on; before: the number of real questions ahead of the short line.
ShortLineDropped(qs, without, following, before) ==
    /\ Len(following) <= Len(qs)
    /\ Len(following) <= Len(without)
    /\ Suffix(qs, Len(following)) = Suffix(without, Len(following))
    /\ Len(qs) - Len(following) <= before

\* C8: when a numbered line of three characters is immediately followed by a
\* real numbered question, the short line gives no record of its own, and the
\* records from the following question on are those of the document without
\* the short line.
C8_ShortLineDropped ==
    pc = "done" =>
        \A i \in 1..(Len(paragraphs) - 1) :
            (ShortNumbered(paragraphs[i]) /\ RealQuestion(paragraphs[i + 1])) =>
                ShortLineDropped(
                    questions,
                    parse_document_universal(Without(paragraphs, i), SourceName, ChapterName),
                    parse_document_universal(SubSeq(paragraphs, i + 1, Len(paragraphs)),
                                             SourceName, ChapterName),
                    Cardinality({j \in 1..(i - 1) : RealQuestion(paragraphs[j])}))

\* a finished run in which the short line "1 A", which opens a question of
\* one character, came between two real questions that both gave a record
C8_Witness ==
    /\ pc = "done"
    /\ Len(paragraphs) >= 3
    /\ \E i \in 2..(Len(paragraphs) - 1) :
          /\ paragraphs[i] = "1 A"
          /\ RealQuestion(paragraphs[i - 1])
          /\ RealQuestion(paragraphs[i + 1])
    /\ Len(questions) = 2

(***************************************************************************)
(* Properties of main.                                                     *)
(***************************************************************************)
\* the fingerprint of a record as the deduplication is described: the first
\* hundred characters of the text, in lower case, without the white space
\* at its ends
Fingerprint(q) ==
    strip(lower(IF Len(q.questionText) > 100 THEN SubSeq(q.questionText, 1, 100)
                ELSE q.questionText))

Fingerprints(qs) == [k \in 1..Len(qs) |-> Fingerprint(qs[k])]

\* the positions of fps that hold a fingerprint for the first time
FirstOccurrences(fps) == {i \in 1..Len(fps) : \A j \in 1..(i - 1) : fps[j] # fps[i]}

\* the k-th smallest member of a set of positions
KthOf(I, k) == CHOOSE i \in I : Cardinality({j \in I : j <= i}) = k

\* the subsequence of qs at the positions I
Pick(qs, I) == [k \in 1..Cardinality(I) |-> qs[KthOf(I, k)]]

\* the records that have been through the deduplication
Deduplicated == SubSeq(all_questions, 1, dedup_idx - 1)

FirstOfFingerprint(out, fps, inp) ==
    /\ \A i, j \in 1..Len(out) : i # j => fps[i] # fps[j]
    /\ {fps[i] : i \in 1..Len(out)} = {inp[i] : i \in 1..Len(inp)}

\* C2: the output of the deduplication is the subsequence of the records
\* that hold their fingerprint for the first time, in their order; no two
\* records of the output share a fingerprint and every fingerprint of the
\* input is in the output.
C2_FirstOccurrenceKept ==
    pc \in {"dedup", "done"} =>
        /\ unique_questions = Pick(Deduplicated, FirstOccurrences(Fingerprints(Deduplicated)))
        /\ FirstOfFingerprint(unique_questions, Fingerprints(unique_questions),
                              Fingerprints(Deduplicated))

\* a finished run in which a record was dropped whose text differs from the
\* text of the record kept for its fingerprint
C2_Witness ==
    /\ pc = "done"
    /\ \E i, j \in 1..Len(all_questions) :
          /\ i < j
          /\ Fingerprint(all_questions[i]) = Fingerprint(all_questions[j])
          /\ all_questions[i].questionText # all_questions[j].questionText
          /\ Len(all_questions[j].questionText) > 100
          /\ \E k \in 1..Len(unique_questions) : unique_questions[k] = all_questions[i]
          /\ \A k \in 1..Len(unique_questions) : unique_questions[k] # all_questions[j]

\* the results of the two parsers for the chapter banks of the runs
StructuredOf == [f \in ChapterPool |-> parse_chapter_bank(f.paragraphs, f.name)]

UniversalOf ==
    [f \in ChapterPool |-> parse_document_universal(f.paragraphs, "Chapter - " \o f.name, f.name)]

\* the records a readable chapter bank is said to give to the run
Contribution(structured, universal) ==
    IF Len(structured) >= 5 THEN structured ELSE universal

ChapterRead == AtChapter /\ chapter_files[file_idx].opens

\* C3: the step that reads a chapter bank adds to the run the result of the
\* structured extractor when it has at least 5 records, and otherwise the
\* result of the universal parser alone.
C3_StrategySelection ==
    [][ChapterRead =>
          /\ questions' = Contribution(StructuredOf[chapter_files[file_idx]],
                                       UniversalOf[chapter_files[file_idx]])
          /\ all_questions' = all_questions \o questions']_vars

\* a chapter bank has been read whose structured result had a record, fewer
\* than 5, and whose universal result is empty: nothing was added
C3_Witness ==
    /\ pc = "chapters"
    /\ file_idx > 1
    /\ chapter_files[file_idx - 1].opens
    /\ Len(StructuredOf[chapter_files[file_idx - 1]]) \in 1..4
    /\ UniversalOf[chapter_files[file_idx - 1]] = <<>>
    /\ questions = <<>>
    /\ all_questions = <<>>

\* C9: once main has read the chapter bank whose whole text is
\* "1. What is a lambda function? Ans: A function defined with no name.",
\* its records are one record with the text before the marker as
\* questionText and the text after it as correctAnswer.
C9_InlineAnswerExtracted ==
    (pc = "chapters" /\ file_idx > 1 /\ chapter_files[file_idx - 1].paragraphs = InlineAnswerDoc) =>
        /\ Len(questions) = 1
        /\ questions[1].questionText = "What is a lambda function?"
        /\ questions[1].correctAnswer = Some("A function defined with no name.")

(***************************************************************************)
(* Properties of the functions called alone.                               *)
(***************************************************************************)
Returned(function) == strategy = function /\ pc = "returned"

\* C11: for every line x, clean_text(clean_text(x)) = clean_text(x), in both
\* files, also when removing a pagination artifact brings the pieces of
\* another one together.
C11_NormalizationIdempotent ==
    /\ Returned("clean_text") => clean_text(Val(result)) = Val(result)
    /\ Returned("clean_text_v1") => clean_text_v1(Val(result)) = Val(result)

\* the candidate shapes that are found somewhere in the text
MatchingPatterns(text) ==
    {i \in 1..Len(MarksPatterns) : Found(re_search(MarksPatterns[i], text))}

Least(S) == CHOOSE i \in S : \A j \in S : i <= j

\* the number the pattern captures at its first match in the text
CapturedBy(pattern, text) == ToInt(Group(text, re_search(pattern, text), 1))

\* the number of the earliest candidate shape that is found, or none
NumberOfEarliest(text, matching) ==
    IF matching = {} THEN None ELSE Some(CapturedBy(MarksPatterns[Least(matching)], text))

\* The order of the shapes on texts made of MarkPieces: "[7 marks]" wins
\* wherever it is, then "(4 m)", then "2 marks" at the end of the text, then
\* the bare "[5]"; a text of bare numbers and sentences has no marks.
ShapeOrder(text, marks) ==
    /\ Contains(text, "[7 marks]") => marks = Some(7)
    /\ (~Contains(text, "[7 marks]") /\ Contains(text, "(4 m)")) => marks = Some(4)
    /\ (~Contains(text, "[7 marks]") /\ ~Contains(text, "(4 m)") /\ EndsWith(text, "2 marks"))
          => marks = Some(2)
    /\ (~Contains(text, "[7 marks]") /\ ~Contains(text, "(4 m)") /\ ~EndsWith(text, "2 marks")
          /\ Contains(text, "[5]")) => marks = Some(5)
    /\ (~Contains(text, "[") /\ ~Contains(text, "(") /\ ~Contains(lower(text), "marks"))
          => marks = None

\* C12: extract_marks returns the number captured by the earliest pattern of
\* its ordered list that matches anywhere in the text, wherever the matches
\* lie, and none when no pattern matches; "Explain photosynthesis. [5] 3"
\* gives 5.
C12_EarliestPatternWins ==
    Returned("extract_marks") =>
        /\ Val(result) = NumberOfEarliest(args[1], MatchingPatterns(args[1]))
        /\ ShapeOrder(args[1], Val(result))
        /\ args[1] = "Explain photosynthesis. [5] 3" => Val(result) = Some(5)

\* extract_marks has returned for a text in which a bare bracketed number
\* comes before the annotation with the word marks
C12_Witness ==
    /\ Returned("extract_marks")
    /\ args[1] = "[5] 3 [7 marks]"
    /\ Val(result) = Some(7)

QuestionTypes ==
    {"mcq", "true_false", "assertion_reason", "fill_blank", "matching", "long_answer",
     "short_answer"}

\* The rules in their order, each with the type it gives; lowered: the text
\* in lower case; marks: the marks extracted from the text, or none.
TypeRules(lowered, options, marks) ==
    << <<Len(options) >= 2, "mcq">>,
       <<Contains(lowered, "true or false") \/ Contains(lowered, "true/false"), "true_false">>,
       <<Contains(lowered, "assertion") /\ Contains(lowered, "reason"), "assertion_reason">>,
       <<Contains(lowered, "fill in") \/ Contains(lowered, "fill up"), "fill_blank">>,
       <<Contains(lowered, "match") /\ Contains(lowered, "column"), "matching">>,
       <<IsSome(marks) /\ Val(marks) >= 4, "long_answer">>,
       <<IsSome(marks) /\ Val(marks) \in {2, 3}, "short_answer">>,
       <<TRUE, "short_answer">> >>

\* the type of the first rule that fires
FirstRuleType(rules) == rules[Least({i \in 1..Len(rules) : rules[i][1]})][2]

\* C13: detect_question_type returns one value of the closed set of types,
\* the one of the first rule that fires in the order: two or more options,
\* true/false, assertion and reason, fill in/up, match and column, marks of 4
\* or more, marks of 2 or 3, the default.
C13_FirstRuleWins ==
    Returned("detect_question_type") =>
        /\ Val(result) \in QuestionTypes
        /\ Val(result) = FirstRuleType(TypeRules(lower(args[1]), args[2], extract_marks(args[1])))

\* detect_question_type has returned for a text with a keyword and marks of
\* 5 and a single option: the keyword rule fired before the marks rule
C13_Witness ==
    /\ Returned("detect_question_type")
    /\ args = <<"Fill in [5]", <<"A) one">>>>
    /\ Val(result) = "fill_blank"

(***************************************************************************)
(* Properties of the file loops of both files.                             *)
(***************************************************************************)
\* the records of a chapter bank and of a paper when the file is parsed by
\* itself, in either version of main
ChapterAlone(version, f) ==
    IF version = "main"
    THEN Contribution(parse_chapter_bank(f.paragraphs, f.name),
                      parse_document_universal(f.paragraphs, "Chapter - " \o f.name, f.name))
    ELSE parse_chapter_question_bank(f.paragraphs, f.name)

PaperAlone(version, f) ==
    IF version = "main" THEN parse_document_universal(f.paragraphs, f.name, "Mixed")
    ELSE parse_question_paper(f.paragraphs, f.name)

\* the file the loop is at
AtFile == AtChapter \/ AtPaper

FileAt == IF pc = "chapters" THEN chapter_files[file_idx] ELSE paper_files[file_idx]

Alone == IF pc = "chapters" THEN ChapterAlone(strategy, FileAt) ELSE PaperAlone(strategy, FileAt)

\* the error of the file at position k of the list was printed
Raised(list, k) == \E e \in 1..Len(errors) : errors[e] = [list |-> list, at |-> k]

\* this step printed the error of the file the loop is at
RaisedNow == errors' = Append(errors, [list |-> pc, at |-> file_idx])

\* A step at a file goes to the next file of the same loop; it adds nothing
\* to all_questions when parsing raised and the whole result of the file
\* otherwise, after the records that were there; a file that cannot be opened
\* raises.  No other step touches all_questions, and a loop is left only
\* when its files have all been read.
IsolatedStep ==
    /\ AtFile =>
          /\ pc' = pc
          /\ file_idx' = file_idx + 1
          /\ RaisedNow \/ errors' = errors
          /\ ~FileAt.opens => RaisedNow
          /\ all_questions' = all_questions \o (IF RaisedNow THEN <<>> ELSE Alone)
    /\ ~AtFile => all_questions' = all_questions /\ errors' = errors

\* main of parse_all_docs_v2.py ends when the deduplication has been over
\* every record; both mains end after the last paper
RunsToTheEnd ==
    /\ pc \in {"dedup", "done"} => file_idx = Len(paper_files) + 1
    /\ (pc = "done" /\ strategy = "main") => dedup_idx = Len(all_questions) + 1

BoundaryLines == {i \in 1..Len(lines) : BIsBoundary(lines[i])}

\* The span of the k-th question: the lines after its boundary up to the
\* next boundary, or to the end of the document.
SpanOf(boundaries, k) ==
    (KthOf(boundaries, k) + 1) ..
    (IF k < Cardinality(boundaries) THEN KthOf(boundaries, k + 1) - 1 ELSE Len(lines))

AnswerLines(span) == {i \in span : BIsAnswer(lines[i])}

Greatest(S) == CHOOSE i \in S : \A j \in S : j <= i

\* the text after the answer marker of a line
AfterMarker(line) == strip(Group(line, re_match(BAnswerRe, line), 1))

\* the answer of a span: the one of its last answer line, or none
SpanAnswer(answers) ==
    IF answers = {} THEN None ELSE Some(AfterMarker(lines[Greatest(answers)]))

StartsWith(text, word) == Len(text) >= Len(word) /\ Slice(text, 1, Len(word)) = word

\* the cleaned blocks of the structured extractor: each goes from a question
\* number to the next one
BlockTexts(full_text, matches) ==
    {clean_text(Group(full_text, matches[k], 2)) : k \in 1..Len(matches)}

\* the record's text opens the block and its answer follows a marker there
AnswerInBlock(q, block) ==
    /\ StartsWith(block, q.questionText)
    /\ Contains(lower(Slice(block, Len(q.questionText) + 1, Len(block))), "ans")
    /\ Contains(Slice(block, Len(q.questionText) + 1, Len(block)), Val(q.correctAnswer))

AnswerFromOwnBlock(q, blocks) ==
    IsSome(q.correctAnswer) => \E block \in blocks : AnswerInBlock(q, block)

\* C15: a record has a correctAnswer only when an answer marker was found in
\* the span of its own question: in the line-based chapter-bank parser it is
\* the answer of the last answer line between its boundary and the next one,
\* in the structured extractor it follows a marker in the record's own
\* block; the records of the universal and the simple-paper parsers have none.
C15_AnswerFromOwnSpan ==
    /\ strategy \in {"universal", "paper"} =>
          \A k \in 1..Len(questions) : questions[k].correctAnswer = None
    /\ strategy = "bank" =>
          \A k \in 1..Len(questions) :
              questions[k].correctAnswer = SpanAnswer(AnswerLines(SpanOf(BoundaryLines, k)))
    /\ strategy = "structured" =>
          \A k \in 1..Len(questions) :
              AnswerFromOwnBlock(questions[k],
                                 BlockTexts(join("\n", paragraphs),
                                            re_finditer(BlockRe, join("\n", paragraphs))))

\* a finished run of the line-based chapter-bank parser over an answer line
\* ahead of the first question: its record has no answer
C15_Witness ==
    /\ pc = "done"
    /\ strategy = "bank"
    /\ paragraphs = <<"OR\nAns: the for loop", "3. Define the loop [5]">>
    /\ Len(questions) = 1
    /\ questions[1].correctAnswer = None

UppercaseLetters == {"A", "B", "C", "D"}

\* "<Letter>) <text>" with an uppercase letter A-D
WellFormedOption(option) ==
    /\ Len(option) >= 3
    /\ Slice(option, 1, 1) \in UppercaseLetters
    /\ Slice(option, 2, 3) = ") "

WellFormedOptions(options) ==
    options # None =>
        /\ Val(options) # <<>>
        /\ \A k \in 1..Len(Val(options)) : WellFormedOption(Val(options)[k])

\* C16: in every record of every strategy, options is absent or a non-empty
\* list, and each option starts with an uppercase letter A-D followed by
\* ") ", also when the line had a lowercase letter.
C16_OptionsUppercase ==
    \A k \in 1..Len(questions) : WellFormedOptions(questions[k].options)

\* the records the universal parser gives for the document alone
RecordsAlone(document) ==
    IF document.opens
    THEN parse_document_universal(document.paragraphs, SourceName, ChapterName)
    ELSE <<>>

RECURSIVE RecordsAloneUpTo(_)
RecordsAloneUpTo(k) ==
    IF k = 0 THEN <<>> ELSE RecordsAloneUpTo(k - 1) \o RecordsAlone(paper_files[k])

\* C17: the records a document contributes depend on its own text only: run
\* after any sequence of earlier documents, also ones that ended inside a
\* question or could not be read, the parser returns the records it returns
\* for the document alone, and all_questions holds those of every document
\* read so far.
C17_DocumentsIndependent ==
    /\ pc = "done" => questions = RecordsAlone(paper_files[file_idx])
    /\ all_questions = RecordsAloneUpTo(file_idx - 1)

\* the second call has returned; the first document ended inside the options
\* of a question and the second begins with lines outside any question
C17_Witness ==
    /\ pc = "done"
    /\ file_idx = 2
    /\ paper_files[1].paragraphs = <<"1. Why use the for loop? [3]", "(a) to repeat", "(b) to stop">>
    /\ paper_files[2].paragraphs = <<"(c) to go on", "and then to stop", "2. Why use the while loop?">>
    /\ Len(questions) = 1
    /\ questions[1].questionText = "Why use the while loop?"

IsPrefixOf(a, b) == Len(a) <= Len(b) /\ SubSeq(b, 1, Len(a)) = a

\* a step leaves the records of every list as they are and in their place;
\* a list gets at most new records at its end (questions is a new, empty
\* list when a call of the parser starts)
RecordsKept ==
    /\ \/ IsPrefixOf(questions, questions')
       \/ pc = "call" /\ questions' = <<>>
    /\ IsPrefixOf(all_questions, all_questions')
    /\ IsPrefixOf(unique_questions, unique_questions')
    /\ unique_questions' # unique_questions =>
          unique_questions' = Append(unique_questions, all_questions[dedup_idx])

\* C18: a record once appended is never changed: every step of a parser
\* leaves the records of its output as they are and only appends to it, and
\* a step of the deduplication appends the record it looks at unchanged or
\* leaves the unique records as they are.
C18_RecordsImmutable == [][RecordsKept]_vars

\* the same paper was read twice, a line at a time, and the deduplication
\* has dropped its second record
C18_Witness ==
    /\ pc = "done"
    /\ Len(paper_files) = 2
    /\ paper_files[1] = HeaderPaper
    /\ Len(all_questions) = 2 * Len(questions)
    /\ unique_questions = questions

\* the annotation shapes of extract_marks: "[n marks]" or "[n m]",
\* "(n marks)", a trailing "n marks" and a bare "[n]"
AnnotationShapes == SubSeq(MarksPatterns, 1, 4)

EndsWithAnnotation(text) ==
    \E k \in 1..Len(AnnotationShapes) :
        Found(re_search(Cat(<<AnnotationShapes[k], Eos>>), text))

\* C19: in the records of the universal parser and of the structured
\* extractor, questionText does not end with a mark annotation of a shape
\* that extract_marks recognises.
C19_NoTrailingAnnotation ==
    strategy \in {"universal", "structured"} =>
        \A k \in 1..Len(questions) : ~EndsWithAnnotation(questions[k].questionText)

\* a question is open: a boundary has fired in this document
QuestionOpen == IsSome(current_q_num)

\* the line the loop of the universal parser reads is an option line of an
\* open question
AtOptionOfOpenQuestion ==
    /\ AtLine("universal")
    /\ QuestionOpen
    /\ ~UIsHeader(lines[idx])
    /\ ~UIsBoundary(lines[idx])
    /\ UIsOption(lines[idx])

OptionStep ==
    (AtOptionOfOpenQuestion /\ idx' = idx + 1) =>
        /\ Len(current_options') = Len(current_options) + 1
        /\ question_buffer' = question_buffer

\* C20: in the universal parser, a line that is no header and no boundary
\* and matches the option pattern while a question is open is appended to
\* the options of the question and not to its body, also when the boundary
\* line had no text after the question number.
C20_OptionOfOpenQuestion == [][OptionStep]_vars

(***************************************************************************)
(* Properties of the steps of the line-based state machines.               *)
(***************************************************************************)
\* the step ends the open question: a boundary line is read, or the input
\* has ended
UFinalizing ==
    \/ AtLine("universal") /\ ~UIsHeader(lines[idx]) /\ UIsBoundary(lines[idx])
    \/ AtEnd("universal")

PFinalizing ==
    \/ AtLine("paper") /\ ~PIsHeader(lines[idx]) /\ PIsBoundary(lines[idx])
    \/ AtEnd("paper")

\* the open question passes the length filter
UPasses == question_buffer # <<>> /\ UKeep(UQuestionText(question_buffer))

PPasses == Truthy(current_question) /\ Len(Val(current_question)) > MinPaperLen

\* one record with the text is appended to questions
EmitsOne(text) ==
    /\ Len(questions') = Len(questions) + 1
    /\ SubSeq(questions', 1, Len(questions)) = questions
    /\ questions'[Len(questions')].questionText = text

\* after the step the question that was open is closed: the input has ended,
\* or the open question is the one of the line just read
UClosed ==
    IF AtEnd("universal") THEN pc' = "done" /\ question_buffer' = <<>>
    ELSE /\ idx' = idx + 1
         /\ \A k \in 1..Len(question_buffer') :
               /\ k = 1
               /\ Contains(lines[idx], question_buffer'[k])

PClosed ==
    IF AtEnd("paper") THEN pc' = "done"
    ELSE /\ idx' = idx + 1
         /\ in_options' = FALSE
         /\ current_options' = <<>>
         /\ Contains(lines[idx], Val(current_question'))

FinalizedOnce ==
    /\ strategy = "universal" =>
          IF UFinalizing
          THEN /\ (IF UPasses THEN EmitsOne(UQuestionText(question_buffer))
                   ELSE questions' = questions)
               /\ UClosed
          ELSE questions' = questions /\ pc' = pc
    /\ strategy = "paper" =>
          IF PFinalizing
          THEN /\ (IF PPasses THEN EmitsOne(Val(current_question))
                   ELSE questions' = questions)
               /\ PClosed
          ELSE questions' = questions /\ pc' = pc

\* the run has ended only after the whole input was read
NothingLeftOpen == pc = "done" => idx > Len(lines)

\* C21: in the universal and the simple-paper parser, the open question is
\* finalized at the next boundary line and, for the last one, at the end of
\* the input, and at no other step: the step emits exactly one record when
\* the question passes the length filter and none otherwise, and after it
\* the question is no longer open, so none is finalized twice or left open.
C21_FinalizedExactlyOnce == [][FinalizedOnce]_vars /\ []NothingLeftOpen

\* the universal parser has reached the end of the input with an open
\* question that passed the length filter, and has emitted it
C21_Witness ==
    /\ strategy = "universal"
    /\ pc = "done"
    /\ paragraphs = <<"2. State true or false: x is y\n(c) neither", "Q4) Fill in the gaps 3 marks">>
    /\ Len(questions) = 2
    /\ questions[2].questionText = "Fill in the gaps"

\* the step reads a bare OR line
AtOrLine ==
    /\ strategy \in {"universal", "paper"}
    /\ pc = "loop"
    /\ idx <= Len(lines)
    /\ IsOr(lines[idx])

OrStep == AtOrLine => UNCHANGED <<loopVars, questions, pc>> /\ idx' = idx + 1

NotOr(line) == ~IsOr(line)

\* the lines without the bare OR lines
WithoutOr(ls) == SelectSeq(ls, NotOr)

\* the records of the line sequence, read from the start
RecordsOfLines(ls) ==
    IF strategy = "universal"
    THEN save_current_question(UFold(UInit, ls, ChapterName, SourceName),
                               ChapterName, SourceName).questions
    ELSE PSave(PFold(PInit, ls, SourceName), SourceName).questions

SameWithoutOr ==
    (strategy \in {"universal", "paper"} /\ pc = "done") =>
        questions = RecordsOfLines(WithoutOr(lines))

\* C22: in the universal and the simple-paper parser a bare OR line, in any
\* case, changes nothing of the state but the position in the input, and the
\* records of a line sequence are those of the sequence without its OR lines.
C22_OrLineNoEffect == [][OrStep]_vars /\ []SameWithoutOr

\* the universal parser has read an OR line inside an open question and has
\* emitted the question with the line after the OR line in its text
C22_Witness ==
    /\ strategy = "universal"
    /\ pc = "done"
    /\ paragraphs = <<"3. Define the loop [5]", "OR\nAns: the for loop">>
    /\ Len(questions) = 1
    /\ questions[1].questionText = "Define the loop [5] Ans: the for loop"

\* the simple-paper parser reads a boundary line
AtPaperBoundary == AtLine("paper") /\ ~PIsHeader(lines[idx]) /\ PIsBoundary(lines[idx])

LatchStep ==
    strategy = "paper" =>
        /\ (in_options /\ ~AtPaperBoundary) =>
               current_question' = current_question /\ in_options'
        /\ (in_options /\ ~in_options') => AtPaperBoundary
        /\ (AtPaperBoundary /\ idx' = idx + 1) => ~in_options' /\ current_options' = <<>>

\* C23: in the simple-paper parser, once an option line has been accumulated
\* for the open question, no later line is appended to the body of that
\* question until the next boundary line; only a boundary line leaves the
\* option mode, and it starts the new question outside it.
C23_OptionLatch == [][LatchStep]_vars

\* a line after the options of a question was read and is not in its text
C23_Witness ==
    /\ strategy = "paper"
    /\ pc = "done"
    /\ paragraphs = <<"1. Why use the for loop? [0]\n(a) for loop\n(b) while loop",
                      "OR\nAns: the for loop">>
    /\ in_options
    /\ Len(questions) = 1
    /\ questions[1].questionText = "Why use the for loop? [0]"

\* the boundary lines of the universal and of the simple-paper parser ahead
\* of position i
BoundariesBefore(i) ==
    IF strategy = "universal"
    THEN {j \in 1..(i - 1) : ~UIsHeader(lines[j]) /\ UIsBoundary(lines[j])}
    ELSE {j \in 1..(i - 1) : ~PIsHeader(lines[j]) /\ PIsBoundary(lines[j])}

\* what the marks extractor of the parser reads on the line
MarksOnLine(line) ==
    IF strategy = "universal" THEN extract_marks(line) ELSE extract_marks_v1(line)

\* the marks captured on the boundary line of the open question
CapturedMarks == MarksOnLine(lines[Greatest(BoundariesBefore(idx))])

DefaultMarks(type) == IF type = "mcq" THEN 1 ELSE 2

\* the step emits a record
Emits == strategy \in {"universal", "paper"} /\ Len(questions') = Len(questions) + 1

Emitted == questions'[Len(questions')]

CapturedOrDefault ==
    Emits => Emitted.marks = IF IsSome(CapturedMarks) THEN Val(CapturedMarks)
                             ELSE DefaultMarks(Emitted.type)

PositiveCapturedOrDefault ==
    Emits => Emitted.marks = IF IsSome(CapturedMarks) /\ Val(CapturedMarks) >= 1
                             THEN Val(CapturedMarks)
                             ELSE DefaultMarks(Emitted.type)

\* C24 as stated: the marks of a record are the value the marks extractor
\* captured on its boundary line when it captured one, and otherwise 1 for
\* the type mcq and 2 for every other type.
C24_MarksCapturedOrDefault == [][CapturedOrDefault]_vars

\* C24: the marks of a record are the value the marks extractor captured on
\* its boundary line when it captured one of at least 1; when it captured
\* none or captured 0, they are 1 for the type mcq and 2 for every other type.
C24_MarksPositiveCapturedOrDefault == [][PositiveCapturedOrDefault]_vars

\* a question with the annotation [0] and two options was emitted with the
\* default of its type
C24_Witness ==
    /\ strategy = "universal"
    /\ pc = "done"
    /\ paragraphs = <<"1. Why use the for loop? [0]\n(a) for loop\n(b) while loop">>
    /\ Len(questions) = 1
    /\ questions[1].type = "mcq"
    /\ questions[1].marks = 1

\* C25: no record of the simple-paper parser has a questionText of 15
\* characters or fewer.
C25_PaperTextLongerThan15 ==
    strategy = "paper" =>
        \A k \in 1..Len(questions) : Len(questions[k].questionText) > 15

\* C26: no record of the line-based chapter-bank parser has a questionText of
\* 10 characters or fewer, and none has an empty one.
C26_BankTextLongerThan10 ==
    strategy = "bank" =>
        \A k \in 1..Len(questions) :
            /\ Len(questions[k].questionText) > 10
            /\ questions[k].questionText # ""

\* a number, white space and a letter of the given set, with no "." or ")"
\* after the number
Unpunctuated(letters) == Cat(<<Bos, Digits, Plus(Ws), Chr(letters)>>)

UnpunctuatedUpper(line) == Found(re_match(Unpunctuated(CharSet(UpperS)), line))

UnpunctuatedLower(line) == Found(re_match(Unpunctuated(CharSet(LowerS)), line))

UnpunctuatedStep ==
    (AtLine("universal") /\ ~UIsHeader(lines[idx]) /\ idx' = idx + 1) =>
        /\ UnpunctuatedUpper(lines[idx]) =>
               /\ IsSome(current_q_num')
               /\ StartsWith(lines[idx], Val(current_q_num'))
        /\ UnpunctuatedLower(lines[idx]) =>
               /\ questions' = questions
               /\ current_q_num' = current_q_num
               /\ IsPrefixOf(question_buffer, question_buffer')

\* C27: in the universal parser, a line that starts with a number and white
\* space, with no "." or ")", is a question boundary when the character after
\* the white space is an uppercase letter; when it is a lowercase letter the
\* line does not finalize the open question and does not open a new one.
C27_UnpunctuatedBoundary == [][UnpunctuatedStep]_vars

\* the text of a block ahead of its first detected option, without a
\* trailing mark annotation
TextBeforeOption(block, opts) ==
    strip(re_sub(BlockTrailingMarksRe, "", strip(Slice(block, 1, opts[1].st - 1))))

\* the block has a detected option and the record has the text ahead of it
CutAtFirstOption(q, block, opts) ==
    opts # <<>> /\ q.questionText = TextBeforeOption(block, opts)

CutInSomeBlock(q, blocks) ==
    \E block \in blocks : CutAtFirstOption(q, block, re_finditer(InlineOptionRe, block))

\* C28: a record of the structured extractor that has options has as its
\* questionText the text of its block up to the start of the first detected
\* option: no character ahead of that option is cut off, also not after an
\* article "a ".
C28_CutAtFirstDetectedOption ==
    Returned("parse_chapter_bank") =>
        \A k \in 1..Len(Val(result)) :
            Val(result)[k].options # None =>
                CutInSomeBlock(Val(result)[k],
                               BlockTexts(join("\n", args[1]),
                                          re_finditer(BlockRe, join("\n", args[1]))))

RECURSIVE RecordsOfFiles(_)
RecordsOfFiles(files) ==
    IF files = <<>> THEN <<>>
    ELSE RecordsAlone(Head(files)) \o RecordsOfFiles(Tail(files))

\* the papers of the run in the order p
Reordered(p) == [k \in 1..Len(paper_files) |-> paper_files[p[k]]]

\* the deduplication of a list of records: the first record of every
\* fingerprint, in order
DedupOf(records) == Pick(records, FirstOccurrences(Fingerprints(records)))

FingerprintSet(records) == {Fingerprint(records[k]) : k \in 1..Len(records)}

SameFingerprints(out, other) ==
    /\ FingerprintSet(out) = FingerprintSet(other)
    /\ Len(out) = Len(other)

\* the run over the papers has ended with the deduplication
PapersDeduplicated ==
    /\ strategy = "universal"
    /\ pc = "done"
    /\ paper_files # <<>>
    /\ file_idx > Len(paper_files)

\* C29: the papers of a run read in any other order give a deduplicated
\* output with the same set of fingerprints and the same number of records
\* as the output of the run.
C29_OrderKeepsFingerprints ==
    PapersDeduplicated =>
        \A p \in Permutations(1..Len(paper_files)) :
            SameFingerprints(unique_questions, DedupOf(RecordsOfFiles(Reordered(p))))

\* two papers with the same question, with options and a mark in the first
\* only: the record of the first paper is kept, and the other order keeps
\* the record of the second
C29_Witness ==
    /\ PapersDeduplicated
    /\ Len(paper_files) = 2
    /\ paper_files[2] = NotePaper
    /\ Len(unique_questions) = 1
    /\ unique_questions[1].type = "mcq"
    /\ DedupOf(RecordsOfFiles(<<paper_files[2], paper_files[1]>>)) # unique_questions

\* the boundary lines of the three line-based parsers ahead of position i
LineBoundariesBefore(i) ==
    IF strategy = "bank" THEN {j \in 1..(i - 1) : BIsBoundary(lines[j])}
    ELSE BoundariesBefore(i)

\* the lines from the first boundary line on; none when there is no boundary
FromFirstBoundary(boundaries) ==
    IF boundaries = {} THEN <<>> ELSE SubSeq(lines, Least(boundaries), Len(lines))

LineRecords(ls) ==
    IF strategy = "bank" THEN BSave(BFold(BInit, ls, ChapterName), ChapterName).questions
    ELSE RecordsOfLines(ls)

\* no question is open and no record is emitted
NothingAccumulated ==
    /\ questions = <<>>
    /\ question_buffer = <<>>
    /\ current_question = None
    /\ current_options = <<>>

\* C30: in the universal, the simple-paper and the line-based chapter-bank
\* parser, the lines ahead of the first boundary line of a document open no
\* question and give nothing to a record: the records are those of the lines
\* from the first boundary line on, and a document with no boundary line has
\* no records.
C30_LinesBeforeFirstBoundaryDropped ==
    strategy \in {"universal", "paper", "bank"} =>
        /\ (pc = "loop" /\ LineBoundariesBefore(idx) = {}) => NothingAccumulated
        /\ pc = "done" =>
              questions = LineRecords(FromFirstBoundary(LineBoundariesBefore(Len(lines) + 1)))

\* the universal parser has read an option line ahead of the first question:
\* the one record has only the option of its own question
C30_Witness ==
    /\ strategy = "universal"
    /\ pc = "done"
    /\ paragraphs = <<"(d) none", "2. State true or false: x is y\n(c) neither">>
    /\ Len(questions) = 1
    /\ questions[1].questionText = "State true or false: x is y"
    /\ questions[1].options = Some(<<"C) neither">>)

(***************************************************************************)
(* Order, count and content of the records of the line-based parsers.      *)
(***************************************************************************)
\* boundaries: the boundary lines of the document
\* the lines from the k-th boundary line up to the line ahead of the next
\* boundary line, or up to the end of the document
QuestionLines(boundaries, k) ==
    SubSeq(lines, KthOf(boundaries, k),
           IF k < Cardinality(boundaries) THEN KthOf(boundaries, k + 1) - 1 ELSE Len(lines))

\* the records of the first k questions, each read alone, in the order of
\* their boundary lines
RECURSIVE RecordsInBoundaryOrder(_, _)
RecordsInBoundaryOrder(boundaries, k) ==
    IF k = 0 THEN <<>>
    ELSE RecordsInBoundaryOrder(boundaries, k - 1)
             \o RecordsOfLines(QuestionLines(boundaries, k))

\* the questions that have been finalized: all the boundary lines read but
\* the last one while the loop runs, all of them after the end of the input
Finalized(seen_boundaries) ==
    IF pc = "done" \/ seen_boundaries = 0 THEN seen_boundaries ELSE seen_boundaries - 1

AtMostOnePerBoundary(boundaries) ==
    \A k \in 1..Cardinality(boundaries) :
        Len(RecordsOfLines(QuestionLines(boundaries, k))) <= 1

\* C31: in the universal and the simple-paper parser, after any prefix of
\* the input the number of records is at most the number of boundary lines
\* read minus one (none before the first boundary line), and at most the
\* number of boundary lines after the end of the input; a boundary line
\* gives at most one record, and the records of the output are, in the
\* order of the boundary lines that opened them, those of the questions.
C31_RecordsInBoundaryOrder ==
    strategy \in {"universal", "paper"} =>
        /\ Len(questions) <= Finalized(Cardinality(BoundariesBefore(idx)))
        /\ pc = "done" =>
              /\ AtMostOnePerBoundary(BoundariesBefore(Len(lines) + 1))
              /\ questions = RecordsInBoundaryOrder(BoundariesBefore(Len(lines) + 1),
                                                    Cardinality(BoundariesBefore(idx)))

\* the universal parser has finished a document whose second question has
\* the smaller number: the two records are in the order of the lines
C31_Witness ==
    /\ strategy = "universal"
    /\ pc = "done"
    /\ paragraphs = <<"2. State true or false: x is y\n(c) neither",
                      "1. Why use the for loop? [0]\n(a) for loop\n(b) while loop">>
    /\ Len(questions) = 2
    /\ questions[1].questionText = "State true or false: x is y"
    /\ questions[2].questionText = "Why use the for loop?"

\* the k-th boundary line of those that give a record
EmittingBoundary(boundaries, k) ==
    KthOf({j \in 1..Cardinality(boundaries) :
              RecordsOfLines(QuestionLines(boundaries, j)) # <<>>}, k)

\* the option texts the parser builds from the lines
OptionTextsOf(ls) ==
    {OptionText(ls[i], re_match(OptionRe, ls[i])) : i \in {j \in 1..Len(ls) : UIsOption(ls[j])}}

\* the options and the captured marks of the record are read on the lines
\* of its own question: the options on the lines after the boundary line,
\* the marks on the boundary line
FromOwnLines(q, own) ==
    /\ IsSome(q.options) =>
          \A o \in 1..Len(Val(q.options)) :
              Val(q.options)[o] \in OptionTextsOf(Tail(own))
    /\ q.marks = MarksOrDefault(MarksOnLine(own[1]), q.type)

RecordsFromOwnLines(boundaries) ==
    \A k \in 1..Len(questions) :
        FromOwnLines(questions[k], QuestionLines(boundaries, EmittingBoundary(boundaries, k)))

\* a boundary line is read while the open candidate is too short to be kept
AtDiscard ==
    \/ /\ AtLine("universal") /\ ~UIsHeader(lines[idx]) /\ UIsBoundary(lines[idx])
       /\ question_buffer # <<>> /\ ~UPasses
    \/ /\ AtPaperBoundary
       /\ Truthy(current_question) /\ ~PPasses

\* nothing of the discarded candidate is left: no record is emitted, no
\* option is kept, the marks are those of the new boundary line and the text
\* is the rest of that line
DiscardStep ==
    AtDiscard =>
        /\ questions' = questions
        /\ current_options' = <<>>
        /\ current_marks' = MarksOnLine(lines[idx])
        /\ strategy = "universal" =>
              question_buffer' \in {<<>>, <<strip(re_sub(QPatterns[FirstQPattern(lines[idx], 1)],
                                                         "", lines[idx]))>>}
        /\ strategy = "paper" =>
              /\ current_question' = Some(Group(lines[idx], re_match(PQuestionRe, lines[idx]), 2))
              /\ in_options' = FALSE

\* C32: in the universal and the simple-paper parser, when a candidate is
\* discarded at a boundary line for being too short, its options, its
\* captured marks and its body lines are reset, and the options and the
\* marks of every record of the output come only from the lines between
\* its own boundary line and the next one.
C32_NoLeakFromDiscarded ==
    /\ [][DiscardStep]_vars
    /\ []((strategy \in {"universal", "paper"} /\ pc = "done") =>
             RecordsFromOwnLines(BoundariesBefore(Len(lines) + 1)))

\* the universal parser has discarded a candidate with a body line, an
\* option and captured marks: the record of the next question has only its
\* own option and the default marks
C32_Witness ==
    /\ strategy = "universal"
    /\ pc = "done"
    /\ paragraphs = <<"7. Say [3]\nso\n(a) it", "2. State true or false: x is y\n(c) neither">>
    /\ Len(questions) = 1
    /\ questions[1].options = Some(<<"C) neither">>)
    /\ questions[1].marks = 2

\* C33: every record of the universal parser with the type long_answer has
\* marks of at least 4: the marks that classify the type and the marks
\* stored on the record do not disagree, also when the mark annotation is on
\* a continuation line of the question.
C33_LongAnswerHasFourMarks ==
    strategy = "universal" =>
        \A k \in 1..Len(questions) :
            questions[k].type = "long_answer" => questions[k].marks >= 4

\* the chapter bank main has just read, when it opened
LastChapter == chapter_files[file_idx - 1]

\* main has read a chapter bank on which the structured extractor gives
\* fewer records than the fallback asks for
AfterFallback ==
    /\ strategy = "main"
    /\ pc = "chapters"
    /\ file_idx > 1
    /\ LastChapter.opens
    /\ Len(parse_chapter_bank(LastChapter.paragraphs, LastChapter.name)) < FallbackBelow

\* the answers the structured extractor finds after the markers of the text
MarkedAnswers(structured) ==
    {Val(structured[k].correctAnswer) :
        k \in {j \in 1..Len(structured) : IsSome(structured[j].correctAnswer)}}

NoAnswers == \A k \in 1..Len(questions) : questions[k].correctAnswer = None

\* the text is inside the questionText of some record
InSomeRecord(text) ==
    \E k \in 1..Len(questions) : Contains(questions[k].questionText, text)

\* the record of the universal parser for the question of the structured
\* record: its text starts with the text ahead of the marker
SameQuestion(q, s) == StartsWith(q.questionText, s.questionText)

\* the text after the marker is in the record of its question, but for what
\* finalize strips from the end of a question
AnswerKeptInText(q, s) ==
    (IsSome(s.correctAnswer) /\ SameQuestion(q, s)) =>
        Contains(q.questionText, UQuestionText(<<Val(s.correctAnswer)>>))

AnswersKeptInText(structured) ==
    \A k \in 1..Len(questions) : \A j \in 1..Len(structured) :
        AnswerKeptInText(questions[k], structured[j])

McqIffTwoOptions ==
    \A k \in 1..Len(questions) :
        questions[k].type = "mcq" <=> OptionCount(questions[k]) >= 2

\* a step of a line-based parser that emits a record
LineEmits ==
    strategy \in {"universal", "paper", "bank"} /\ Len(questions') = Len(questions) + 1

\* the marks the parser has read for the open question
MarksRead ==
    IF strategy = "bank" THEN extract_marks_v1(Val(current_question)) ELSE current_marks

\* the record has the options the question accumulated; with fewer than 2
\* of them its type is not mcq and its marks are 1 only when 1 was read
FewOptionsStep ==
    LineEmits =>
        /\ OptionCount(Emitted) = Len(current_options)
        /\ Emitted.type = "mcq" <=> Len(current_options) >= 2
        /\ Len(current_options) < 2 =>
              (Emitted.marks = 1 => MarksRead = Some(1))

\* a prefix of a block of the structured extractor that starts with the
\* text of the record has the mark annotation 1
OneMarkInBlock(q, blocks) ==
    \E block \in blocks :
        /\ StartsWith(block, q.questionText)
        /\ \E n \in 1..Len(block) : extract_marks(Slice(block, 1, n)) = Some(1)

FewOptionsStructured ==
    strategy = "structured" =>
        \A k \in 1..Len(questions) :
            (OptionCount(questions[k]) < 2 /\ questions[k].marks = 1) =>
                OneMarkInBlock(questions[k],
                               BlockTexts(join("\n", paragraphs),
                                          re_finditer(BlockRe, join("\n", paragraphs))))

\* C35: in the records of the four strategies the type is mcq exactly when
\* the question accumulated at least 2 options; a question with no option
\* or with one option is never typed mcq and never gets the default of 1
\* mark of an mcq: its marks are 1 only when that value was read.
C35_McqOnlyFromTwoOptions ==
    /\ []McqIffTwoOptions
    /\ [][FewOptionsStep]_vars
    /\ []FewOptionsStructured

\* the universal parser has finished a question with one option: its type
\* comes from its text and its marks are the default of 2
C35_Witness ==
    /\ strategy = "universal"
    /\ pc = "done"
    /\ paragraphs = <<"2. State true or false: x is y\n(c) neither">>
    /\ Len(questions) = 1
    /\ OptionCount(questions[1]) = 1
    /\ questions[1].type = "true_false"
    /\ questions[1].marks = 2

(***************************************************************************)
(* Properties of the question-parser service and of the upload script.     *)
(***************************************************************************)
\* the questions the first n pages give, page by page
RECURSIVE QuestionsOfPages(_)
QuestionsOfPages(n) ==
    IF n = 0 THEN <<>>
    ELSE QuestionsOfPages(n - 1) \o
         (IF PageFails(replies[n]) THEN <<>>
          ELSE PageQuestions(Val(ResultOf(replies[n])), n, args.subject, args.class_level))

\* the vision model has been called once for each page read, in order
PagesOnceInOrder ==
    /\ loop_i <= Len(images)
    /\ calls = [k \in 1..loop_i |-> VisionCall(k)]
    /\ pc \in {"returned", "raised"} => loop_i = Len(images)

\* the numbers of the questions in the reply for the page
NumbersOnPage(k) ==
    IF PageFails(replies[k]) \/ Val(ResultOf(replies[k])).questions = None THEN {}
    ELSE {Val(Val(ResultOf(replies[k])).questions).items[n].questionNumber :
             n \in 1..Len(Val(Val(ResultOf(replies[k])).questions).items)}

\* each question has the number of the page whose reply holds it, and the
\* questions are in the order of the pages
PageNumbersRight ==
    /\ \A n \in 1..Len(all_questions) :
          /\ IsSome(all_questions[n].pageNumber)
          /\ Val(all_questions[n].pageNumber) \in 1..loop_i
          /\ all_questions[n].questionNumber \in NumbersOnPage(Val(all_questions[n].pageNumber))
    /\ \A m, n \in 1..Len(all_questions) :
          m < n => Val(all_questions[m].pageNumber) <= Val(all_questions[n].pageNumber)

\* the metadata of the reply for the first page, or an empty object
FirstPageMetadata ==
    IF images = <<>> \/ PageFails(replies[1]) \/ Val(ResultOf(replies[1])).paperMetadata = None
    THEN EmptyObject
    ELSE Val(Val(ResultOf(replies[1])).paperMetadata)

ExtractReturned ==
    pc = "returned" =>
        /\ Val(result).totalPages = Len(images)
        /\ Val(result).questions = QuestionsOfPages(Len(images))
        /\ Val(result).paperMetadata =
               Overridden(FirstPageMetadata, args.subject, args.class_level)

\* C37: extract_questions_from_images calls the vision model once for each
\* page, in order; a page whose call raises or whose reply cannot be decoded
\* adds nothing and takes nothing from the other pages, and the pages after
\* it are read; every question has the 1-based number of the page that gave
\* it and the questions are in the order of the pages; totalPages is the
\* number of images; paperMetadata is the one of the reply for the first
\* page, with the given subject and class written over it.
C37_PageWiseExtraction ==
    strategy = "extract_questions_from_images" =>
        /\ PagesOnceInOrder
        /\ all_questions = QuestionsOfPages(loop_i)
        /\ PageNumbersRight
        /\ paper_metadata = (IF loop_i = 0 THEN EmptyObject ELSE FirstPageMetadata)
        /\ ExtractReturned

\* two pages, the reply for the first one cannot be decoded: the result has
\* the two questions of the second page, with its number, and none of its
\* metadata
C37_Witness ==
    /\ strategy = "extract_questions_from_images"
    /\ pc = "returned"
    /\ Len(images) = 2
    /\ replies[1] = Broken
    /\ Len(Val(result).questions) = 2
    /\ Val(result).questions[2].questionNumber = "2"
    /\ Val(result).questions[2].pageNumber = Some(2)
    /\ Val(result).totalPages = 2
    /\ Val(result).paperMetadata = EmptyObject

(***************************************************************************)
(* The parse-paper endpoint: validation and errors.                        *)
(***************************************************************************)
TypeAllowed == IsSome(RequestType(file)) /\ Val(RequestType(file)) \in AllowedTypes

\* nothing is converted and the vision model is not called unless the type
\* is allowed and the key is long enough
NoCallUnlessValid == calls # <<>> => TypeAllowed /\ KeyValid(openai_api_key)

EndpointDone == strategy \in {"parser_service", "parser_routes"} /\ pc = "done"

\* each violation answers 400
ViolationAnswers400 ==
    EndpointDone /\ ~(TypeAllowed /\ KeyValid(openai_api_key))
        => Val(response).status_code = 400

\* the step after a conversion to zero images answers 400 with the detail
ZeroImagesStep ==
    strategy \in {"parser_service", "parser_routes"} /\ pc = "check" /\ images = <<>>
        => response' = Some(Answer(400, "Could not process the uploaded file", None))

\* C36: in the parse-paper endpoint nothing is converted and the vision
\* model is not called unless the content type is allowed and the API key
\* has at least 20 characters, each violation answers 400, and an upload
\* that converts to zero images is answered with status 400 "Could not
\* process the uploaded file", not with the generic 500.
C36_ValidationAndErrors ==
    /\ [][ZeroImagesStep]_vars
    /\ [](NoCallUnlessValid /\ ViolationAnswers400)


(***************************************************************************)
(* upload_questions.py: the sequencing of the upload.                      *)
(***************************************************************************)
\* the questions of the batches sent so far, in the order they were sent
RECURSIVE SentQuestions(_, _)
SentQuestions(sent, n) ==
    IF n = 0 THEN <<>> ELSE SentQuestions(sent, n - 1) \o sent[n].questions

\* the numbers of the attempts that failed, ascending
RECURSIVE FailedNumbers(_, _)
FailedNumbers(outcomes, n) ==
    IF n = 0 THEN <<>>
    ELSE IF Failed(outcomes[n]) THEN Append(FailedNumbers(outcomes, n - 1), n)
    ELSE FailedNumbers(outcomes, n - 1)

\* the questions the loop has passed
Passed == IF loop_i < Len(questions) THEN loop_i ELSE Len(questions)

NoBatchWithoutToken == calls # <<>> => Truthy(token) /\ Val(response).status_code = 200

\* the batches sent hold the questions passed, each once, in input order
SentOnceInOrder ==
    /\ SentQuestions(calls, Len(calls)) = [k \in 1..Passed |-> Formatted(questions[k])]
    /\ \A b \in 1..Len(calls) : Len(calls[b].questions) \in 1..BATCH_SIZE
    /\ \A j, k \in 1..Len(questions) : j # k => Formatted(questions[j]) # Formatted(questions[k])

\* one attempt for every batch passed, whatever the outcomes before it
OneAttemptEach ==
    /\ Len(calls) = (Passed + BATCH_SIZE - 1) \div BATCH_SIZE
    /\ Len(replies) = Len(calls)

AllSentAtTheEnd == pc = "done" => Passed = Len(questions)

\* C38: in upload_questions.py no batch is sent unless login returned a
\* token; after a successful login every question is sent in exactly one
\* batch of at most 50, the batches are attempted once each in input order,
\* a failed batch (another status than 200, or an exception) neither stops
\* nor repeats a batch, and failed_batches holds exactly the numbers of the
\* batches that failed.
C38_UploadSequencing ==
    strategy = "upload_questions" =>
        /\ NoBatchWithoutToken
        /\ SentOnceInOrder
        /\ OneAttemptEach
        /\ AllSentAtTheEnd
        /\ failed_batches = FailedNumbers(replies, Len(replies))

\* all questions were passed in three batches, the last one short, of which
\* the second failed by an exception and the first was answered with JSON
C38_Witness ==
    /\ strategy = "upload_questions"
    /\ pc = "done"
    /\ Len(calls) = 3
    /\ Len(calls[3].questions) < BATCH_SIZE
    /\ replies[1].kind = "json" /\ replies[1].status_code = 200
    /\ replies[2].kind = "raises"
    /\ replies[3].status_code = 500
    /\ failed_batches = <<2, 3>>
    /\ total_uploaded = BATCH_SIZE
====
